---- MODULE Spec2Model ----
(***************************************************************************)
(* A model of the declarative SVG renderer (src/src/svg.ts).               *)
(*                                                                         *)
(* Strings are sequences of one-character strings, so that escaping,       *)
(* stringification and trimming are computed character by character.       *)
(* JavaScript values are tagged records; an object is the sequence of its  *)
(* entries in Object.entries order (the keys of the model are not          *)
(* integer-like, so that order is insertion order).                        *)
(***************************************************************************)
EXTENDS Integers, Sequences, FiniteSets, TLC

VARIABLES
  svgDefinition,  \* the description object handed to svg(): its entries
  svgOptions,     \* the options object handed to svg(): its entries
  pc,           \* "ready" before the call, "done" after it
  result,       \* what the call produced: [out, thrown]
  trace,        \* history of the call: value-function calls, warnings, renderElement returns
  args,         \* the arguments of a call of the scale and tick engine
  loopV,        \* generateTicks: the loop variable v
  ticks,        \* generateTicks: the array ticks
  ret           \* what a call of the scale and tick engine returned

vars == <<svgDefinition, svgOptions, pc, result, trace, args, loopV, ticks, ret>>

RECURSIVE NumStr(_), ReplaceAll(_, _, _), Join(_, _, _), ToStringJS(_)
RECURSIVE collect(_, _, _, _, _), renderChildren(_, _, _, _, _, _)
RECURSIVE renderArray(_, _, _, _, _, _, _), renderEach(_, _, _, _, _, _, _, _)
RECURSIVE renderElement(_, _, _, _, _, _), renderNode(_, _, _, _, _, _)
RECURSIVE ticksLoop(_, _, _, _), linePathOf(_, _)

-----------------------------------------------------------------------------
(* JavaScript values *)

Null == [t |-> "null"]
Undefined == [t |-> "undefined"]
NaN == [t |-> "NaN"]
Bool(b) == [t |-> "boolean", b |-> b]
Num(n) == [t |-> "number", n |-> n]
Str(s) == [t |-> "string", s |-> s]
Arr(a) == [t |-> "array", a |-> a]
Obj(e) == [t |-> "object", e |-> e]
\* A caller-supplied value function, named by its body:
\*   d, value, i, index, data, dataLength, parentI, parentD, even, throw
Fn(f) == [t |-> "function", f |-> f]
\* ctx => k
FnK(k) == [t |-> "function", f |-> "const", k |-> k]
\* ({ i }) => k[i], a function of the item's position alone
FnOfI(k) == [t |-> "function", f |-> "ofI", k |-> k]
\* ({ d }) => the result the table k pairs with d, a function of the item alone
FnOfD(k) == [t |-> "function", f |-> "ofD", k |-> k]

\* Array.isArray(v)
IsArray(v) == v.t = "array"

\* typeof v === 'function'
IsFunction(v) == v.t = "function"

TruthyUnlessFalse(v) == v # Bool(FALSE)

\* JavaScript ToBoolean
Truthy(v) ==
  CASE v.t = "null" -> FALSE
    [] v.t = "undefined" -> FALSE
    [] v.t = "NaN" -> FALSE
    [] v.t = "boolean" -> v.b
    [] v.t = "number" -> v.n # 0
    [] v.t = "string" -> v.s # <<>>
    [] OTHER -> TRUE

Digits == <<"0", "1", "2", "3", "4", "5", "6", "7", "8", "9">>

NumStr(n) ==
  IF n < 0 THEN <<"-">> \o NumStr(-n)
  ELSE IF n < 10 THEN <<Digits[n + 1]>>
  ELSE NumStr(n \div 10) \o <<Digits[(n % 10) + 1]>>

S_null == <<"n","u","l","l">>
S_undefined == <<"u","n","d","e","f","i","n","e","d">>
S_true == <<"t","r","u","e">>
S_false == <<"f","a","l","s","e">>
S_NaN == <<"N","a","N">>
S_object == <<"[","o","b","j","e","c","t"," ","O","b","j","e","c","t","]">>
S_function == <<"c","t","x"," ","=",">"," ",".",".",".">>

\* Array.prototype.join over the first n elements: null and undefined give ""
Join(a, n, sep) ==
  IF n = 0 THEN <<>>
  ELSE LET x == a[n]
           s == IF x.t \in {"null", "undefined"} THEN <<>> ELSE ToStringJS(x)
       IN IF n = 1 THEN s ELSE Join(a, n - 1, sep) \o sep \o s

\* String(v), also what a template literal does to v
ToStringJS(v) ==
  CASE v.t = "string" -> v.s
    [] v.t = "number" -> NumStr(v.n)
    [] v.t = "NaN" -> S_NaN
    [] v.t = "null" -> S_null
    [] v.t = "undefined" -> S_undefined
    [] v.t = "boolean" -> IF v.b THEN S_true ELSE S_false
    [] v.t = "array" -> Join(v.a, Len(v.a), <<",">>)
    [] v.t = "object" -> S_object
    [] v.t = "function" -> S_function

-----------------------------------------------------------------------------
(* Escaping *)

\* str.replace(/c/g, r): every occurrence of the character c becomes r
ReplaceAll(s, c, r) ==
  IF s = <<>> THEN <<>>
  ELSE (IF Head(s) = c THEN r ELSE <<Head(s)>>) \o ReplaceAll(Tail(s), c, r)

AMP == <<"&","a","m","p",";">>
QUOT == <<"&","q","u","o","t",";">>
LT == <<"&","l","t",";">>
GT == <<"&","g","t",";">>

escapeAttrAmpLast(str) ==
  ReplaceAll(ReplaceAll(ReplaceAll(ReplaceAll(ToStringJS(str), "\"", QUOT), "<", LT), ">", GT), "&", AMP)

escapeAttr(str) ==
  ReplaceAll(ReplaceAll(ReplaceAll(ReplaceAll(ToStringJS(str), "&", AMP), "\"", QUOT), "<", LT), ">", GT)

escapeTextQuot(str) == escapeAttr(str)

escapeText(str) ==
  ReplaceAll(ReplaceAll(ReplaceAll(ToStringJS(str), "&", AMP), "<", LT), ">", GT)

-----------------------------------------------------------------------------
(* Key classification *)

SVG_ELEMENTS ==
  { "svg", "g", "defs", "symbol", "use", "title", "desc",
    "rect", "circle", "ellipse", "line", "polyline", "polygon", "path",
    "text", "tspan", "textPath",
    "image", "foreignObject",
    "linearGradient", "radialGradient", "stop", "pattern",
    "clipPath", "mask", "filter",
    "feBlend", "feColorMatrix", "feComponentTransfer", "feComposite",
    "feConvolveMatrix", "feDiffuseLighting", "feDisplacementMap",
    "feDropShadow", "feFlood", "feGaussianBlur", "feImage", "feMerge",
    "feMergeNode", "feMorphology", "feOffset", "feSpecularLighting",
    "feTile", "feTurbulence", "marker", "animate", "animateMotion",
    "animateTransform", "set", "a" }

SPECIAL_KEYS == {"$each", "$if", "$text", "$key", "$raw"}

\* The keys the model's descriptions use, with their characters
ModelKeys ==
  { "svg", "g", "rect", "circle", "text", "tspan", "title", "filter", "mask", "set", "a",
    "xmlns", "width", "id", "x", "fill", "div",
    "line", "path", "height", "style", "transform", "cx", "cy", "r", "x1", "y1", "x2", "y2",
    "stroke", "stroke-width", "stroke-linecap", "stroke-linejoin", "d", "opacity", "y", "rx",
    "text-anchor", "font-size", "font-weight",
    "$each", "$if", "$text", "$raw", "$key", "$foo" }

KeyChars ==
  [k \in ModelKeys |->
    CASE k = "svg" -> <<"s","v","g">>
      [] k = "g" -> <<"g">>
      [] k = "rect" -> <<"r","e","c","t">>
      [] k = "circle" -> <<"c","i","r","c","l","e">>
      [] k = "text" -> <<"t","e","x","t">>
      [] k = "tspan" -> <<"t","s","p","a","n">>
      [] k = "title" -> <<"t","i","t","l","e">>
      [] k = "filter" -> <<"f","i","l","t","e","r">>
      [] k = "mask" -> <<"m","a","s","k">>
      [] k = "set" -> <<"s","e","t">>
      [] k = "a" -> <<"a">>
      [] k = "xmlns" -> <<"x","m","l","n","s">>
      [] k = "width" -> <<"w","i","d","t","h">>
      [] k = "id" -> <<"i","d">>
      [] k = "x" -> <<"x">>
      [] k = "fill" -> <<"f","i","l","l">>
      [] k = "div" -> <<"d","i","v">>
      [] k = "line" -> <<"l","i","n","e">>
      [] k = "path" -> <<"p","a","t","h">>
      [] k = "height" -> <<"h","e","i","g","h","t">>
      [] k = "style" -> <<"s","t","y","l","e">>
      [] k = "transform" -> <<"t","r","a","n","s","f","o","r","m">>
      [] k = "cx" -> <<"c","x">>
      [] k = "cy" -> <<"c","y">>
      [] k = "r" -> <<"r">>
      [] k = "x1" -> <<"x","1">>
      [] k = "y1" -> <<"y","1">>
      [] k = "x2" -> <<"x","2">>
      [] k = "y2" -> <<"y","2">>
      [] k = "stroke" -> <<"s","t","r","o","k","e">>
      [] k = "stroke-width" -> <<"s","t","r","o","k","e","-","w","i","d","t","h">>
      [] k = "stroke-linecap" -> <<"s","t","r","o","k","e","-","l","i","n","e","c","a","p">>
      [] k = "stroke-linejoin" -> <<"s","t","r","o","k","e","-","l","i","n","e","j","o","i","n">>
      [] k = "d" -> <<"d">>
      [] k = "opacity" -> <<"o","p","a","c","i","t","y">>
      [] k = "y" -> <<"y">>
      [] k = "rx" -> <<"r","x">>
      [] k = "text-anchor" -> <<"t","e","x","t","-","a","n","c","h","o","r">>
      [] k = "font-size" -> <<"f","o","n","t","-","s","i","z","e">>
      [] k = "font-weight" -> <<"f","o","n","t","-","w","e","i","g","h","t">>
      [] k = "$each" -> <<"$","e","a","c","h">>
      [] k = "$if" -> <<"$","i","f">>
      [] k = "$text" -> <<"$","t","e","x","t">>
      [] k = "$raw" -> <<"$","r","a","w">>
      [] k = "$key" -> <<"$","k","e","y">>
      [] k = "$foo" -> <<"$","f","o","o">>]

isElement(key) == key \in SVG_ELEMENTS

\* key.startsWith('$')
StartsWithDollar(key) == KeyChars[key][1] = "$"

isAttributeAnyOther(key) == ~isElement(key) /\ key \notin SPECIAL_KEYS



isAttribute(key) == ~isElement(key) /\ key \notin SPECIAL_KEYS /\ ~StartsWithDollar(key)

-----------------------------------------------------------------------------
(* Objects: sequences of <<key, value>> *)

HasKey(e, key) == \E n \in 1..Len(e) : e[n][1] = key

\* obj[key]: undefined when the key is absent
Get(e, key) ==
  IF HasKey(e, key) THEN e[CHOOSE n \in 1..Len(e) : e[n][1] = key][2] ELSE Undefined

\* obj[key] = value: an existing key keeps its position, a new key goes last
Put(e, key, value) ==
  IF HasKey(e, key)
  THEN [n \in 1..Len(e) |-> IF e[n][1] = key THEN <<key, value>> ELSE e[n]]
  ELSE Append(e, <<key, value>>)

\* const { [key]: _, ...rest } = obj
Without(e, key) == SelectSeq(e, LAMBDA kv : kv[1] # key)

-----------------------------------------------------------------------------
(* Contexts and value functions *)

createEmptyContext ==
  [d |-> Null, value |-> Null, i |-> 0, index |-> 0, data |-> <<>>, parent |-> Null]

\* The context renderNode builds for item `item` at position `index` of dataSource
iterCtxOneBased(item, index, dataSource, ctx) ==
  [value |-> item, index |-> index + 1, data |-> dataSource, parent |-> ctx,
   d |-> item, i |-> index + 1]

iterCtxParentData(item, index, dataSource, ctx) ==
  [value |-> item, index |-> index, data |-> ctx.data, parent |-> ctx,
   d |-> item, i |-> index]

iterCtxRootParent(item, index, dataSource, ctx) ==
  [value |-> item, index |-> index, data |-> dataSource, parent |-> createEmptyContext,
   d |-> item, i |-> index]

iterCtxOwnParent(item, index, dataSource, ctx) ==
  [value |-> item, index |-> index, data |-> dataSource,
   parent |-> IF ctx.parent = Null THEN ctx ELSE ctx.parent,
   d |-> item, i |-> index]


iterCtx(item, index, dataSource, ctx) ==
  [value |-> item, index |-> index, data |-> dataSource, parent |-> ctx,
   d |-> item, i |-> index]

Returns(v) == [ret |-> v, thrown |-> ""]
Throws(e) == [ret |-> Undefined, thrown |-> e]

\* d % 2 === 0 (the strings of the model are not numeric: a non-empty one gives NaN)
IsEven(d) ==
  CASE d.t = "number" -> d.n % 2 = 0
    [] d.t = "null" -> TRUE
    [] d.t = "boolean" -> ~d.b
    [] d.t = "string" -> d.s = <<>>
    [] d.t = "array" -> d.a = <<>> \/ (Len(d.a) = 1 /\ d.a[1].t = "number" /\ d.a[1].n % 2 = 0)
    [] OTHER -> FALSE

\* Calling the value function f with ctx: what it returns, or the error it throws
\* What the table of pairs <<argument, result>> gives for the argument a
Lookup(table, a) ==
  IF \E n \in 1..Len(table) : table[n][1] = a
  THEN table[CHOOSE n \in 1..Len(table) : table[n][1] = a][2]
  ELSE Undefined

Call(f, ctx) ==
  CASE f.f = "d" -> Returns(ctx.d)
    [] f.f = "value" -> Returns(ctx.value)
    [] f.f = "i" -> Returns(Num(ctx.i))
    [] f.f = "index" -> Returns(Num(ctx.index))
    [] f.f = "data" -> Returns(Arr(ctx.data))
    [] f.f = "dataLength" -> Returns(Num(Len(ctx.data)))
    [] f.f = "parentI" ->
         IF ctx.parent = Null THEN Throws("TypeError") ELSE Returns(Num(ctx.parent.i))
    [] f.f = "parentD" ->
         IF ctx.parent = Null THEN Throws("TypeError") ELSE Returns(ctx.parent.d)
    [] f.f = "even" -> Returns(Bool(IsEven(ctx.d)))
    [] f.f = "const" -> Returns(f.k)
    [] f.f = "ofI" -> Returns(IF ctx.i + 1 \in DOMAIN f.k THEN f.k[ctx.i + 1] ELSE Undefined)
    [] f.f = "ofD" -> Returns(Lookup(f.k, ctx.d))
    [] f.f = "throw" -> Throws("Error")

\* One step of a path from the root to a node: a child key, or a place in an array
Step(key, n) == [k |-> key, n |-> n]

CallEvent(path, key, fn, ctx, c) ==
  [e |-> "call", path |-> path, key |-> key, fn |-> fn, ctx |-> ctx,
   ret |-> c.ret, thrown |-> c.thrown]

evaluateCaught(value, ctx, path, key, tr) ==
  IF IsFunction(value)
  THEN LET c == Call(value, ctx)
       IN [ret |-> c.ret, thrown |-> "",
           tr |-> Append(tr, CallEvent(path, key, value, ctx, c))]
  ELSE [ret |-> value, thrown |-> "", tr |-> tr]


\* evaluate(value, ctx); path and key say whose value it is, tr is the history so far
evaluate(value, ctx, path, key, tr) ==
  IF IsFunction(value)
  THEN LET c == Call(value, ctx)
       IN [ret |-> c.ret, thrown |-> c.thrown,
           tr |-> Append(tr, CallEvent(path, key, value, ctx, c))]
  ELSE [ret |-> value, thrown |-> "", tr |-> tr]

-----------------------------------------------------------------------------
(* renderElement *)

RECURSIVE Repeat(_, _), JoinStrs(_, _, _)

\* s.repeat(n)
Repeat(s, n) == IF n = 0 THEN <<>> ELSE s \o Repeat(s, n - 1)

\* strs.join(sep) over the first n strings
JoinStrs(strs, n, sep) ==
  IF n = 0 THEN <<>>
  ELSE IF n = 1 THEN strs[1]
  ELSE JoinStrs(strs, n - 1, sep) \o sep \o strs[n]

Indent(pretty, indent) == IF Truthy(pretty) THEN Repeat(<<" ", " ">>, indent) ELSE <<>>

Newline(pretty) == IF Truthy(pretty) THEN <<"\n">> ELSE <<>>

AttrEmittedFalsy(attrValue) == Truthy(attrValue)

\* attrValue !== null && attrValue !== undefined && attrValue !== false
AttrEmitted(attrValue) ==
  /\ attrValue.t # "null"
  /\ attrValue.t # "undefined"
  /\ ~(attrValue.t = "boolean" /\ ~attrValue.b)

\* `${key}="${escapeAttr(attrValue)}"`
AttrText(key, attrValue) ==
  KeyChars[key] \o <<"=", "\"">> \o escapeAttr(attrValue) \o <<"\"">>

RawOrEmptyEscaped(v) == IF Truthy(v) THEN Str(escapeText(v)) ELSE Str(<<>>)

\* evaluate(value, ctx) || ''
RawOrEmpty(v) == IF Truthy(v) THEN v ELSE Str(<<>>)

\* What a step of a traversal hands on: the text so far, the history, the error raised
Out(out, tr) == [out |-> out, tr |-> tr, thrown |-> ""]

Raised(tr, e) == [out |-> <<>>, tr |-> tr, thrown |-> e]

\* acc, then r: the texts concatenated, unless acc already raised
Then(acc, r) ==
  IF acc.thrown # "" THEN acc
  ELSE [out |-> acc.out \o r.out, tr |-> r.tr, thrown |-> r.thrown]

collectEntryKeyAttribute(acc, key, value, ctx, path) ==
  LET ev == evaluate(value, ctx, path, key, acc.tr)
      failed == [acc EXCEPT !.tr = ev.tr, !.thrown = ev.thrown]
  IN
    IF acc.thrown # "" THEN acc
    ELSE IF key \in SPECIAL_KEYS \ {"$key"} THEN
      IF key = "$text" THEN
        IF ev.thrown # "" THEN failed
        ELSE [acc EXCEPT !.textContent = escapeText(ev.ret), !.tr = ev.tr]
      ELSE IF key = "$raw" THEN
        IF ev.thrown # "" THEN failed
        ELSE [acc EXCEPT !.rawContent = RawOrEmpty(ev.ret), !.tr = ev.tr]
      ELSE acc
    ELSE IF isElement(key) THEN
      [acc EXCEPT !.children = Append(@, [tagName |-> key, definition |-> value])]
    ELSE IF isAttribute(key) \/ key = "$key" THEN
      IF ev.thrown # "" THEN failed
      ELSE IF AttrEmitted(ev.ret)
      THEN [acc EXCEPT !.attributes = Append(@, AttrText(key, ev.ret)), !.tr = ev.tr]
      ELSE [acc EXCEPT !.tr = ev.tr]
    ELSE acc


\* One pass of the loop over Object.entries(definition): the entry key: value
collectEntry(acc, key, value, ctx, path) ==
  LET ev == evaluate(value, ctx, path, key, acc.tr)
      failed == [acc EXCEPT !.tr = ev.tr, !.thrown = ev.thrown]
  IN
    IF acc.thrown # "" THEN acc
    ELSE IF key \in SPECIAL_KEYS THEN
      IF key = "$text" THEN
        IF ev.thrown # "" THEN failed
        ELSE [acc EXCEPT !.textContent = escapeText(ev.ret), !.tr = ev.tr]
      ELSE IF key = "$raw" THEN
        IF ev.thrown # "" THEN failed
        ELSE [acc EXCEPT !.rawContent = RawOrEmpty(ev.ret), !.tr = ev.tr]
      ELSE acc
    ELSE IF isElement(key) THEN
      [acc EXCEPT !.children = Append(@, [tagName |-> key, definition |-> value])]
    ELSE IF isAttribute(key) THEN
      IF ev.thrown # "" THEN failed
      ELSE IF AttrEmitted(ev.ret)
      THEN [acc EXCEPT !.attributes = Append(@, AttrText(key, ev.ret)), !.tr = ev.tr]
      ELSE [acc EXCEPT !.tr = ev.tr]
    ELSE acc

\* The loop over Object.entries(definition), after its first n entries
collect(definition, n, ctx, path, tr) ==
  IF n = 0
  THEN [attributes |-> <<>>, children |-> <<>>, textContent |-> <<>>,
        rawContent |-> Str(<<>>), tr |-> tr, thrown |-> ""]
  ELSE collectEntry(collect(definition, n - 1, ctx, path, tr),
                    definition[n][1], definition[n][2], ctx, path)

\* One pass of the loop over children
renderChild(acc, child, ctx, options, path) ==
  IF acc.thrown # "" THEN acc
  ELSE Then(acc, renderNode(child.tagName, child.definition, ctx,
                            [options EXCEPT !.indent = @ + 1],
                            Append(path, Step(child.tagName, 0)), acc.tr))

\* The loop over children, after its first n children
renderChildren(children, n, ctx, options, path, tr) ==
  IF n = 0 THEN Out(<<>>, tr)
  ELSE renderChild(renderChildren(children, n - 1, ctx, options, path, tr),
                   children[n], ctx, options, path)

IsTextLeafAnyTag(tagName, textContent) == textContent # <<>>

IsTextLeafNever(tagName, textContent) == FALSE


\* tagName === 'text' && textContent
IsTextLeaf(tagName, textContent) == tagName = "text" /\ textContent # <<>>

OpenTag(tagName, attrStr) == <<"<">> \o KeyChars[tagName] \o attrStr \o <<">">>

CloseTag(tagName) == <<"<", "/">> \o KeyChars[tagName] \o <<">">>

SelfClosingTag(tagName, attrStr) == <<"<">> \o KeyChars[tagName] \o attrStr \o <<"/", ">">>

\* attributes.length > 0 ? ' ' + attributes.join(' ') : ''
AttrStr(attributes) ==
  IF Len(attributes) > 0
  THEN <<" ">> \o JoinStrs(attributes, Len(attributes), <<" ">>)
  ELSE <<>>

CombineRawFirst(tagName, attrStr, childrenStr, textContent, rawContent, options) ==
  LET pretty == Truthy(options.pretty)
      pad == Indent(options.pretty, options.indent)
      nl == Newline(options.pretty)
      hasContent == childrenStr # <<>> \/ textContent # <<>> \/ Truthy(rawContent)
      textPad == IF pretty THEN Repeat(<<" ", " ">>, options.indent + 1) ELSE <<>>
      rawPad == IF pretty /\ Truthy(rawContent) THEN textPad ELSE <<>>
      rawNl == IF pretty /\ Truthy(rawContent) THEN nl ELSE <<>>
  IN IF IsTextLeaf(tagName, textContent)
     THEN pad \o OpenTag(tagName, attrStr) \o textContent \o CloseTag(tagName) \o nl
     ELSE IF hasContent
     THEN pad \o OpenTag(tagName, attrStr) \o nl
          \o (IF Truthy(rawContent) THEN rawPad \o ToStringJS(rawContent) \o rawNl ELSE <<>>)
          \o childrenStr
          \o (IF textContent # <<>> THEN textPad \o textContent \o nl ELSE <<>>)
          \o pad \o CloseTag(tagName) \o nl
     ELSE pad \o SelfClosingTag(tagName, attrStr) \o nl


CombineNeverSelfClosing(tagName, attrStr, childrenStr, textContent, rawContent, options) ==
  LET pretty == Truthy(options.pretty)
      pad == Indent(options.pretty, options.indent)
      nl == Newline(options.pretty)
      textPad == IF pretty THEN Repeat(<<" ", " ">>, options.indent + 1) ELSE <<>>
      rawPad == IF pretty /\ Truthy(rawContent) THEN textPad ELSE <<>>
      rawNl == IF pretty /\ Truthy(rawContent) THEN nl ELSE <<>>
  IN IF IsTextLeaf(tagName, textContent)
     THEN pad \o OpenTag(tagName, attrStr) \o textContent \o CloseTag(tagName) \o nl
     ELSE pad \o OpenTag(tagName, attrStr) \o nl \o childrenStr
          \o (IF textContent # <<>> THEN textPad \o textContent \o nl ELSE <<>>)
          \o (IF Truthy(rawContent) THEN rawPad \o ToStringJS(rawContent) \o rawNl ELSE <<>>)
          \o pad \o CloseTag(tagName) \o nl


CombinePrettyPaired(tagName, attrStr, childrenStr, textContent, rawContent, options) ==
  LET pretty == Truthy(options.pretty)
      pad == Indent(options.pretty, options.indent)
      nl == Newline(options.pretty)
      hasContent == pretty \/ childrenStr # <<>> \/ textContent # <<>> \/ Truthy(rawContent)
      textPad == IF pretty THEN Repeat(<<" ", " ">>, options.indent + 1) ELSE <<>>
      rawPad == IF pretty /\ Truthy(rawContent) THEN textPad ELSE <<>>
      rawNl == IF pretty /\ Truthy(rawContent) THEN nl ELSE <<>>
  IN IF IsTextLeaf(tagName, textContent)
     THEN pad \o OpenTag(tagName, attrStr) \o textContent \o CloseTag(tagName) \o nl
     ELSE IF hasContent
     THEN pad \o OpenTag(tagName, attrStr) \o nl \o childrenStr
          \o (IF textContent # <<>> THEN textPad \o textContent \o nl ELSE <<>>)
          \o (IF Truthy(rawContent) THEN rawPad \o ToStringJS(rawContent) \o rawNl ELSE <<>>)
          \o pad \o CloseTag(tagName) \o nl
     ELSE pad \o SelfClosingTag(tagName, attrStr) \o nl


\* The three return statements that end renderElement
Combine(tagName, attrStr, childrenStr, textContent, rawContent, options) ==
  LET pretty == Truthy(options.pretty)
      pad == Indent(options.pretty, options.indent)
      nl == Newline(options.pretty)
      hasContent == childrenStr # <<>> \/ textContent # <<>> \/ Truthy(rawContent)
      textPad == IF pretty THEN Repeat(<<" ", " ">>, options.indent + 1) ELSE <<>>
      rawPad == IF pretty /\ Truthy(rawContent) THEN textPad ELSE <<>>
      rawNl == IF pretty /\ Truthy(rawContent) THEN nl ELSE <<>>
  IN IF IsTextLeaf(tagName, textContent)
     THEN pad \o OpenTag(tagName, attrStr) \o textContent \o CloseTag(tagName) \o nl
     ELSE IF hasContent
     THEN pad \o OpenTag(tagName, attrStr) \o nl \o childrenStr
          \o (IF textContent # <<>> THEN textPad \o textContent \o nl ELSE <<>>)
          \o (IF Truthy(rawContent) THEN rawPad \o ToStringJS(rawContent) \o rawNl ELSE <<>>)
          \o pad \o CloseTag(tagName) \o nl
     ELSE pad \o SelfClosingTag(tagName, attrStr) \o nl

ElemEvent(path, tagName, definition, ctx, options, out) ==
  [e |-> "elem", path |-> path, tagName |-> tagName, definition |-> definition,
   ctx |-> ctx, options |-> options, out |-> out]

\* renderElement returns out
Return(tagName, definition, ctx, options, path, out, tr) ==
  Out(out, Append(tr, ElemEvent(path, tagName, definition, ctx, options, out)))

\* renderElement once its children are rendered
afterChildren(tagName, definition, ctx, options, path, acc, kids) ==
  IF kids.thrown # "" THEN Raised(kids.tr, kids.thrown)
  ELSE Return(tagName, definition, ctx, options, path,
              Combine(tagName, AttrStr(acc.attributes), kids.out,
                      acc.textContent, acc.rawContent, options),
              kids.tr)

afterCollectLastChildFirst(tagName, definition, ctx, options, path, acc) ==
  IF acc.thrown # "" THEN Raised(acc.tr, acc.thrown)
  ELSE afterChildren(tagName, definition, ctx, options, path, acc,
                     renderChildren([n \in 1..Len(acc.children) |->
                                       acc.children[Len(acc.children) + 1 - n]],
                                    Len(acc.children), ctx, options, path, acc.tr))


\* renderElement once the entries of the definition are collected
afterCollect(tagName, definition, ctx, options, path, acc) ==
  IF acc.thrown # "" THEN Raised(acc.tr, acc.thrown)
  ELSE afterChildren(tagName, definition, ctx, options, path, acc,
                     renderChildren(acc.children, Len(acc.children), ctx, options,
                                    path, acc.tr))

\* renderElement once $if is evaluated to cond
afterIf(tagName, definition, ctx, options, path, cond) ==
  IF cond.thrown # "" THEN Raised(cond.tr, cond.thrown)
  ELSE IF ~Truthy(cond.ret) THEN Return(tagName, definition, ctx, options, path, <<>>, cond.tr)
  ELSE afterCollect(tagName, definition, ctx, options, path,
                    collect(definition, Len(definition), ctx, path, cond.tr))

\* definition is the sequence of entries of the description object
renderElement(tagName, definition, ctx, options, path, tr) ==
  afterIf(tagName, definition, ctx, options, path,
          IF Get(definition, "$if") # Undefined
          THEN evaluate(Get(definition, "$if"), ctx, path, "$if", tr)
          ELSE [ret |-> Bool(TRUE), thrown |-> "", tr |-> tr])

-----------------------------------------------------------------------------
(* renderNode *)

renderArrayItemPrepended(acc, tagName, def, n, ctx, options, path) ==
  IF acc.thrown # "" THEN acc
  ELSE LET r == renderNode(tagName, def, ctx, options, Append(path, Step("[]", n)), acc.tr)
       IN [out |-> r.out \o acc.out, tr |-> r.tr, thrown |-> r.thrown]


renderArrayItemDeeper(acc, tagName, def, n, ctx, options, path) ==
  IF acc.thrown # "" THEN acc
  ELSE Then(acc, renderNode(tagName, def, ctx, [options EXCEPT !.indent = @ + 1],
                            Append(path, Step("[]", n)), acc.tr))


\* One pass of definition.map(def => renderNode(tagName, def, ctx, options)): element n
renderArrayItem(acc, tagName, def, n, ctx, options, path) ==
  IF acc.thrown # "" THEN acc
  ELSE Then(acc, renderNode(tagName, def, ctx, options, Append(path, Step("[]", n)), acc.tr))

\* definition.map(def => renderNode(tagName, def, ctx, options)).join(''), first n elements
renderArray(tagName, defs, n, ctx, options, path, tr) ==
  IF n = 0 THEN Out(<<>>, tr)
  ELSE renderArrayItem(renderArray(tagName, defs, n - 1, ctx, options, path, tr),
                       tagName, defs[n], n - 1, ctx, options, path)

\* One pass of dataSource.map((item, index) => renderElement(...))
renderEachItem(acc, tagName, restDefinition, item, index, dataSource, ctx, options, path) ==
  IF acc.thrown # "" THEN acc
  ELSE Then(acc, renderElement(tagName, restDefinition,
                               iterCtx(item, index, dataSource, ctx),
                               options, path, acc.tr))

\* dataSource.map((item, index) => renderElement(...)).join(''), first n items
renderEach(tagName, restDefinition, dataSource, n, ctx, options, path, tr) ==
  IF n = 0 THEN Out(<<>>, tr)
  ELSE renderEachItem(renderEach(tagName, restDefinition, dataSource, n - 1,
                                 ctx, options, path, tr),
                      tagName, restDefinition, dataSource[n], n - 1, dataSource,
                      ctx, options, path)

WarnEvent(path, got) == [e |-> "warn", path |-> path, got |-> got]

renderPrimitiveAsAttribute(tagName, ev, options) ==
  IF ev.thrown # "" THEN Raised(ev.tr, ev.thrown)
  ELSE Out(Indent(options.pretty, options.indent) \o OpenTag(tagName, <<>>)
           \o escapeAttr(ev.ret) \o CloseTag(tagName) \o Newline(options.pretty),
           ev.tr)


\* renderNode for a definition that is no object: a primitive or a function
renderPrimitive(tagName, ev, options) ==
  IF ev.thrown # "" THEN Raised(ev.tr, ev.thrown)
  ELSE Out(Indent(options.pretty, options.indent) \o OpenTag(tagName, <<>>)
           \o escapeText(ev.ret) \o CloseTag(tagName) \o Newline(options.pretty),
           ev.tr)

afterEachFallThrough(tagName, def, ctx, options, path, src) ==
  IF src.thrown # "" THEN Raised(src.tr, src.thrown)
  ELSE IF ~IsArray(src.ret)
  THEN renderElement(tagName, Without(def, "$each"), ctx, options, path,
                     Append(src.tr, WarnEvent(path, src.ret)))
  ELSE renderEach(tagName, Without(def, "$each"), src.ret.a, Len(src.ret.a),
                  ctx, options, path, src.tr)


\* renderNode once $each is evaluated to src
afterEach(tagName, def, ctx, options, path, src) ==
  IF src.thrown # "" THEN Raised(src.tr, src.thrown)
  ELSE IF ~IsArray(src.ret) THEN Out(<<>>, Append(src.tr, WarnEvent(path, src.ret)))
  ELSE renderEach(tagName, Without(def, "$each"), src.ret.a, Len(src.ret.a),
                  ctx, options, path, src.tr)

renderNode(tagName, definition, ctx, options, path, tr) ==
  IF IsArray(definition)
  THEN renderArray(tagName, definition.a, Len(definition.a), ctx, options, path, tr)
  ELSE IF definition.t # "object"
  THEN renderPrimitive(tagName, evaluate(definition, ctx, path, "", tr), options)
  ELSE IF Get(definition.e, "$each") # Undefined
  THEN afterEach(tagName, definition.e, ctx, options, path,
                 evaluate(Get(definition.e, "$each"), ctx, path, "$each", tr))
  ELSE renderElement(tagName, definition.e, ctx, options, path, tr)

-----------------------------------------------------------------------------
(* svg *)

XMLNS == <<"h","t","t","p",":","/","/","w","w","w",".","w","3",".","o","r","g","/","2","0","0","0","/","s","v","g">>

RECURSIVE Spread(_, _, _), TrimStart(_), TrimEnd(_)

\* { ...target, ...source } over the first n entries of source
Spread(target, source, n) ==
  IF n = 0 THEN target
  ELSE Put(Spread(target, source, n - 1), source[n][1], source[n][2])

\* { xmlns: 'http://www.w3.org/2000/svg', ...definition }
RootDef(def) == Spread(<<<<"xmlns", Str(XMLNS)>>>>, def, Len(def))

WhiteSpace == {" ", "\n", "\t", "\r"}

TrimStart(s) == IF s # <<>> /\ Head(s) \in WhiteSpace THEN TrimStart(Tail(s)) ELSE s

TrimEnd(s) ==
  IF s # <<>> /\ s[Len(s)] \in WhiteSpace THEN TrimEnd(SubSeq(s, 1, Len(s) - 1)) ELSE s

\* String.prototype.trim
Trim(s) == TrimEnd(TrimStart(s))

\* const { pretty = false } = options
PrettyOf(opts) ==
  IF Get(opts, "pretty") = Undefined THEN Bool(FALSE) ELSE Get(opts, "pretty")

svgThroughRenderNode(def, opts) ==
  LET r == renderNode("svg", Obj(RootDef(def)), createEmptyContext,
                      [pretty |-> PrettyOf(opts), indent |-> 0], <<>>, <<>>)
  IN [out |-> IF r.thrown = "" THEN Trim(r.out) ELSE <<>>,
      thrown |-> r.thrown, tr |-> r.tr]


\* svg(definition, options): the string returned or the error raised, and the history
svg(def, opts) ==
  LET r == renderElement("svg", RootDef(def), createEmptyContext,
                         [pretty |-> PrettyOf(opts), indent |-> 0], <<>>, <<>>)
  IN [out |-> IF r.thrown = "" THEN Trim(r.out) ELSE <<>>,
      thrown |-> r.thrown, tr |-> r.tr]

-----------------------------------------------------------------------------
(* plot: numbers *)

\* A JavaScript number of the scale and tick engine: m * 10^x with m not a multiple of
\* ten (zero is 0 * 10^0), an infinity with its sign, or NaN. The arithmetic below is
\* exact in decimal and keeps the range of a double: a result of 1.8 * 10^308 or more is
\* an infinity, a result below 10^-324 is zero, and an addend eighteen or more orders of
\* magnitude smaller than the other is absorbed (it is less than half a unit in the
\* last place of a 53-bit significand). The sign of zero is not kept.
Fin(m, x) == [k |-> "fin", m |-> m, x |-> x]

Inf(s) == [k |-> "inf", s |-> s]

NotANumber == [k |-> "nan"]

Zero == Fin(0, 0)

Abs(n) == IF n < 0 THEN -n ELSE n

\* The number of decimal digits of the integer n
DigitCount(n) ==
  IF Abs(n) >= 10^9 THEN 10
  ELSE CHOOSE d \in 1..9 : Abs(n) < 10^d /\ (d = 1 \/ Abs(n) >= 10^(d - 1))

\* The number of zeros the integer n # 0 ends with
TrailingZeros(n) ==
  CHOOSE z \in 0..9 : Abs(n) % 10^z = 0 /\ (z = 9 \/ Abs(n) % 10^(z + 1) # 0)

\* The decimal order of magnitude of the finite number a # 0: 10^Order <= |a| < 10^(Order + 1)
Order(a) == a.x + DigitCount(a.m) - 1

\* The first three digits of the integer n # 0
Lead3(n) ==
  LET d == DigitCount(n)
  IN IF d >= 3 THEN Abs(n) \div 10^(d - 3) ELSE Abs(n) * 10^(3 - d)

\* m * 10^x is beyond Number.MAX_VALUE = 1.7976931348623157e308
Overflows(m, x) ==
  \/ x + DigitCount(m) - 1 > 308
  \/ x + DigitCount(m) - 1 = 308 /\ Lead3(m) >= 180

\* The number m * 10^x as a double holds it
Norm(m, x) ==
  IF m = 0 THEN Zero
  ELSE LET z == TrailingZeros(m)
           mm == IF m < 0 THEN -(Abs(m) \div 10^z) ELSE m \div 10^z
       IN IF Overflows(mm, x + z) THEN Inf(IF m < 0 THEN -1 ELSE 1)
          ELSE IF x + z + DigitCount(mm) - 1 <= -325 THEN Zero
          ELSE Fin(mm, x + z)

\* The sign of a: 1, -1, or 0 for zero and NaN
Sign(a) ==
  IF a.k = "nan" THEN 0
  ELSE IF a.k = "inf" THEN a.s
  ELSE IF a.m > 0 THEN 1 ELSE IF a.m < 0 THEN -1 ELSE 0

\* -a
NegF(a) ==
  CASE a.k = "nan" -> a
    [] a.k = "inf" -> Inf(-a.s)
    [] OTHER -> Fin(-a.m, a.x)

\* a + b
AddF(a, b) ==
  IF a.k = "nan" \/ b.k = "nan" THEN NotANumber
  ELSE IF a.k = "inf" THEN (IF b.k = "inf" /\ b.s # a.s THEN NotANumber ELSE a)
  ELSE IF b.k = "inf" THEN b
  ELSE IF a.m = 0 THEN b
  ELSE IF b.m = 0 THEN a
  ELSE IF Order(a) - Order(b) >= 18 THEN a
  ELSE IF Order(b) - Order(a) >= 18 THEN b
  ELSE LET x0 == IF a.x < b.x THEN a.x ELSE b.x
       IN Norm(a.m * 10^(a.x - x0) + b.m * 10^(b.x - x0), x0)

\* a - b
SubF(a, b) == AddF(a, NegF(b))

\* a * b
MulF(a, b) ==
  IF a.k = "nan" \/ b.k = "nan" THEN NotANumber
  ELSE IF a.k = "inf" \/ b.k = "inf"
  THEN (IF Sign(a) = 0 \/ Sign(b) = 0 THEN NotANumber ELSE Inf(Sign(a) * Sign(b)))
  ELSE Norm(a.m * b.m, a.x + b.x)

\* a / b, for a divisor whose digits divide those of a, or a power of ten
DivF(a, b) ==
  IF a.k = "nan" \/ b.k = "nan" THEN NotANumber
  ELSE IF a.k = "inf"
  THEN (IF b.k = "inf" THEN NotANumber ELSE Inf(IF Sign(b) < 0 THEN -a.s ELSE a.s))
  ELSE IF b.k = "inf" THEN Zero
  ELSE IF b.m = 0 THEN (IF a.m = 0 THEN NotANumber ELSE Inf(Sign(a)))
  ELSE IF a.m % Abs(b.m) = 0 THEN Norm((a.m \div Abs(b.m)) * Sign(b), a.x - b.x)
  ELSE LET n == CHOOSE n \in 0..9 :
                  10^n % Abs(b.m) = 0 /\ \A j \in 0..(n - 1) : 10^j % Abs(b.m) # 0
           c == (10^n \div Abs(b.m)) * Sign(b)
       IN Norm(a.m * c, a.x - b.x - n)

\* |a| against |b| for finite a, b other than zero: -1, 0 or 1
MagCmp(a, b) ==
  IF Order(a) # Order(b) THEN (IF Order(a) < Order(b) THEN -1 ELSE 1)
  ELSE LET x0 == IF a.x < b.x THEN a.x ELSE b.x
           am == Abs(a.m) * 10^(a.x - x0)
           bm == Abs(b.m) * 10^(b.x - x0)
       IN IF am < bm THEN -1 ELSE IF am > bm THEN 1 ELSE 0

\* a against b, neither NaN: -1, 0 or 1
Cmp(a, b) ==
  IF Sign(a) # Sign(b) THEN (IF Sign(a) < Sign(b) THEN -1 ELSE 1)
  ELSE IF Sign(a) = 0 THEN 0
  ELSE IF a.k = "inf" THEN (IF b.k = "inf" THEN 0 ELSE Sign(a))
  ELSE IF b.k = "inf" THEN -Sign(b)
  ELSE Sign(a) * MagCmp(a, b)

\* a < b
LtF(a, b) == a.k # "nan" /\ b.k # "nan" /\ Cmp(a, b) < 0

\* a <= b
LeF(a, b) == a.k # "nan" /\ b.k # "nan" /\ Cmp(a, b) <= 0

\* Math.floor(a)
FloorF(a) ==
  IF a.k # "fin" \/ a.x >= 0 THEN a
  ELSE IF Order(a) < 0 THEN (IF a.m > 0 THEN Zero ELSE Fin(-1, 0))
  ELSE Norm(a.m \div 10^(-a.x), 0)

\* Math.ceil(a)
CeilF(a) == NegF(FloorF(NegF(a)))

\* Math.round(a): the integer nearest to a, halves go up
RoundF(a) ==
  IF a.k # "fin" \/ a.x >= 0 THEN a
  ELSE IF Order(a) < -1 THEN Zero
  ELSE FloorF(AddF(a, Fin(5, -1)))

\* Math.floor(Math.log10(a))
Log10Floor(a) ==
  CASE a.k = "nan" -> NotANumber
    [] a.k = "inf" -> IF a.s > 0 THEN a ELSE NotANumber
    [] OTHER -> IF a.m < 0 THEN NotANumber
                ELSE IF a.m = 0 THEN Inf(-1)
                ELSE Norm(Order(a), 0)

\* Math.pow(10, e) for an integer, infinite or NaN e
PowTen(e) ==
  CASE e.k = "nan" -> NotANumber
    [] e.k = "inf" -> IF e.s > 0 THEN e ELSE Zero
    [] OTHER -> LET n == e.m * 10^e.x
                IN IF n > 308 THEN Inf(1)
                   ELSE IF n <= -325 THEN Zero
                   ELSE Fin(1, n)

-----------------------------------------------------------------------------
(* plot: the scale and tick engine *)

\* The one element of a set of one element: Only({e : c \in {v}}) is e with the const c = v
Only(S) == CHOOSE e \in S : TRUE

niceNumber(range, round) ==
  LET exponent == Log10Floor(range)
      fraction == DivF(range, PowTen(exponent))
      niceFraction ==
        IF round
        THEN IF LtF(fraction, Fin(15, -1)) THEN Fin(1, 0)
             ELSE IF LtF(fraction, Fin(3, 0)) THEN Fin(2, 0)
             ELSE IF LtF(fraction, Fin(7, 0)) THEN Fin(5, 0)
             ELSE Fin(1, 1)
        ELSE IF LeF(fraction, Fin(1, 0)) THEN Fin(1, 0)
             ELSE IF LeF(fraction, Fin(2, 0)) THEN Fin(2, 0)
             ELSE IF LeF(fraction, Fin(5, 0)) THEN Fin(5, 0)
             ELSE Fin(1, 1)
  IN MulF(niceFraction, PowTen(exponent))

niceScale(min, max, maxTicks) ==
  LET range == niceNumber(SubF(max, min), FALSE)
  IN Only({[min |-> MulF(FloorF(DivF(min, step)), step),
            max |-> MulF(CeilF(DivF(max, step)), step),
            step |-> step] :
             step \in {niceNumber(DivF(range, SubF(maxTicks, Fin(1, 0))), TRUE)}})

\* The most ticks the model lets the loop of generateTicks collect
MaxTicks == 12

\* v <= max + step * 0.5, the condition of the loop of generateTicks
ticksContinue(vv, max, step) == LeF(vv, AddF(max, MulF(step, Fin(5, -1))))

\* Math.round(v * 1e10) / 1e10
tickOf(vv) == DivF(RoundF(MulF(vv, Fin(1, 10))), Fin(1, 10))

createLinearScaleUnguarded(domain, range) ==
  LET d0 == domain[1]
      d1 == domain[2]
      r0 == range[1]
      r1 == range[2]
      scale == DivF(SubF(r1, r0), SubF(d1, d0))
  IN [r0 |-> r0, d0 |-> d0, scale |-> scale]


\* createLinearScale(domain, range): the closure returned, by what it captures
createLinearScale(domain, range) ==
  LET d0 == domain[1]
      d1 == domain[2]
      r0 == range[1]
      r1 == range[2]
      dd == SubF(d1, d0)
      scale == DivF(SubF(r1, r0), IF dd = Zero \/ dd.k = "nan" THEN Fin(1, 0) ELSE dd)
  IN [r0 |-> r0, d0 |-> d0, scale |-> scale]

\* (value) => r0 + (value - d0) * scale
linearScale(closure, value) ==
  AddF(closure.r0, MulF(SubF(value, closure.d0), closure.scale))

-----------------------------------------------------------------------------

(* plot *)

\* String(a) for a number of the engine
NumberText(a) ==
  CASE a.k = "nan" -> S_NaN
    [] a.k = "inf" -> (IF a.s < 0 THEN <<"-">> ELSE <<>>) \o <<"I", "n", "f", "i", "n", "i", "t", "y">>
    [] OTHER ->
         LET ds == NumStr(Abs(a.m))
             L == Len(ds)
             sign == IF a.m < 0 THEN <<"-">> ELSE <<>>
         IN IF a.m # 0 /\ Order(a) >= 21
            THEN sign \o <<ds[1]>> \o (IF L > 1 THEN <<".">> \o SubSeq(ds, 2, L) ELSE <<>>)
                   \o <<"e", "+">> \o NumStr(Order(a))
            ELSE IF a.m # 0 /\ Order(a) < -6
            THEN sign \o <<ds[1]>> \o (IF L > 1 THEN <<".">> \o SubSeq(ds, 2, L) ELSE <<>>)
                   \o <<"e", "-">> \o NumStr(-Order(a))
            ELSE IF a.x >= 0 THEN sign \o ds \o Repeat(<<"0">>, a.x)
            ELSE IF L > -a.x
            THEN sign \o SubSeq(ds, 1, L + a.x) \o <<".">> \o SubSeq(ds, L + a.x + 1, L)
            ELSE sign \o <<"0", ".">> \o Repeat(<<"0">>, -a.x - L) \o ds

\* A number of the engine as a value of a description: a small integer as the number it
\* is, any other number as its decimal text, which is all the renderer takes of it
toJS(a) ==
  IF a.k = "nan" THEN NaN
  ELSE IF a.k = "fin" /\ a.x >= 0 /\ Order(a) < 9 THEN Num(a.m * 10^a.x)
  ELSE Str(NumberText(a))

\* The number an accessor returned, as a number of the engine
fromJS(value) ==
  CASE value.t = "number" -> Norm(value.n, 0)
    [] OTHER -> NotANumber

\* Math.abs(a)
AbsF(a) == IF Sign(a) < 0 THEN NegF(a) ELSE a

\* Math.min(a, b)
MinF(a, b) ==
  IF a.k = "nan" \/ b.k = "nan" THEN NotANumber ELSE IF LeF(a, b) THEN a ELSE b

\* Math.max(a, b)
MaxF(a, b) ==
  IF a.k = "nan" \/ b.k = "nan" THEN NotANumber ELSE IF LeF(a, b) THEN b ELSE a

\* a.toFixed(1)
toFixed1(a) ==
  CASE a.k = "nan" -> S_NaN
    [] a.k = "inf" -> NumberText(a)
    [] OTHER ->
         LET r == RoundF(MulF(AbsF(a), Fin(1, 1)))
             n == r.m * 10^r.x
         IN (IF a.m < 0 THEN <<"-">> ELSE <<>>)
            \o NumStr(n \div 10) \o <<".">> \o NumStr(n % 10)

defaultFormat(value) ==
  IF LeF(Fin(1, 6), AbsF(value)) THEN toFixed1(DivF(value, Fin(1, 6))) \o <<"M">>
  ELSE IF LeF(Fin(1, 3), AbsF(value)) THEN toFixed1(DivF(value, Fin(1, 3))) \o <<"K">>
  ELSE IF value.k = "fin" /\ value.x >= 0 THEN NumberText(value)
  ELSE toFixed1(value)

\* extent(values): the least and the greatest of the numbers values
extent(values) ==
  IF values = <<>> THEN <<Inf(1), Inf(-1)>>
  ELSE LET S == {values[n] : n \in 1..Len(values)}
       IN <<CHOOSE a \in S : \A b \in S : LeF(a, b),
            CHOOSE a \in S : \A b \in S : LeF(b, a)>>

\* The loop of generateTicks from v on: the ticks after acc, and whether the loop ends
ticksLoop(vv, max, step, acc) ==
  IF ticksContinue(vv, max, step)
  THEN IF Len(acc) < MaxTicks
       THEN ticksLoop(AddF(vv, step), max, step, Append(acc, tickOf(vv)))
       ELSE [ticks |-> acc, returns |-> FALSE]
  ELSE [ticks |-> acc, returns |-> TRUE]

generateTicks(min, max, step) == ticksLoop(min, max, step, <<>>)

\* `${i === 0 ? 'M' : 'L'} ${p.x} ${p.y}` for the first n points, joined by ' '
linePathOf(points, n) ==
  IF n = 0 THEN <<>>
  ELSE (IF n = 1 THEN <<"M">> ELSE linePathOf(points, n - 1) \o <<" ", "L">>)
       \o <<" ">> \o NumberText(points[n].x) \o <<" ">> \o NumberText(points[n].y)

\* The ticks as the items of a $each
TickItems(tk) == Arr([n \in 1..Len(tk) |-> toJS(tk[n])])

\* ({ d }) => ..., a function of a tick: results[n] is what it gives for the tick tk[n]
OfTick(tk, results) == FnOfD([n \in 1..Len(tk) |-> <<toJS(tk[n]), results[n]>>])

\* An entry that is there only if cond holds
EntryIf(cond, key, value) == IF cond THEN <<<<key, value>>>> ELSE <<>>

\* The description plot hands to svg, from the grid lines, the marks of the plot type
\* and the groups of the axes: the grid lines, if any, come before the marks, the axes
\* after them, in the one array under g
plotDescription(config, top, left, gridLines, marks, axisGroups) ==
  LET width == config.width
      height == config.height
      title == config.title
      titleText ==
        Obj(<<<<"x", toJS(DivF(width, Fin(2, 0)))>>, <<"y", Num(24)>>,
              <<"text-anchor", Str(<<"m", "i", "d", "d", "l", "e">>)>>, <<"font-size", Num(16)>>,
              <<"font-weight", Str(<<"b", "o", "l", "d">>)>>, <<"fill", Str(<<"#", "3", "3", "3">>)>>,
              <<"$text", title>>>>)
      groups == gridLines \o axisGroups
      plotGroup ==
        <<<<"transform", Str(<<"t", "r", "a", "n", "s", "l", "a", "t", "e", "(">> \o NumberText(left) \o <<",", " ">> \o NumberText(top) \o <<")">>)>>>>
        \o EntryIf(gridLines # <<>>, "g", Arr(groups))
        \o marks
        \o EntryIf(gridLines = <<>> /\ groups # <<>>, "g", Arr(groups))
      definition ==
        <<<<"width", toJS(width)>>, <<"height", toJS(height)>>,
          <<"style", Str(<<"f", "o", "n", "t", "-", "f", "a", "m", "i", "l", "y", ":", " ", "s", "y", "s", "t", "e", "m", "-", "u", "i", ",", " ", "s", "a", "n", "s", "-", "s", "e", "r", "i", "f", ";">>)>>>>
        \o EntryIf(Truthy(title), "text", titleText)
        \o <<<<"g", Obj(plotGroup)>>>>
  IN definition

\* plot from its scales and ticks on: the description handed to svg, or the error raised
\* before, or returns FALSE where a loop of generateTicks never ends
plotElements(config, top, left, plotWidth, plotHeight, xValues, yValues, xScale, yScale, xT, yT) ==
  LET width == config.width
      height == config.height
      data == config.data
      type == config.type
      color == <<"s", "t", "e", "e", "l", "b", "l", "u", "e">>
      xAxisConfig == config.xAxis
      yAxisConfig == config.yAxis
      title == config.title
      xOn == xAxisConfig # Bool(FALSE)
      yOn == yAxisConfig # Bool(FALSE)
      xLabel == IF xOn THEN Get(xAxisConfig.e, "label") ELSE Undefined
      yLabel == IF yOn THEN Get(yAxisConfig.e, "label") ELSE Undefined
      xTicks == xT.ticks
      yTicks == yT.ticks
      XOf(a) == toJS(linearScale(xScale, a))
      YOf(a) == toJS(linearScale(yScale, a))
      yGrid ==
        Obj(<<<<"line",
               Obj(<<<<"$each", TickItems(yTicks)>>, <<"x1", Num(0)>>,
                     <<"y1", OfTick(yTicks, [n \in 1..Len(yTicks) |-> YOf(yTicks[n])])>>, <<"x2", toJS(plotWidth)>>,
                     <<"y2", OfTick(yTicks, [n \in 1..Len(yTicks) |-> YOf(yTicks[n])])>>, <<"stroke", Str(<<"#", "e", "0", "e", "0", "e", "0">>)>>,
                     <<"stroke-width", Num(1)>>>>)>>>>)
      xGrid ==
        Obj(<<<<"line",
               Obj(<<<<"$each", TickItems(xTicks)>>, <<"x1", OfTick(xTicks, [n \in 1..Len(xTicks) |-> XOf(xTicks[n])])>>,
                     <<"y1", Num(0)>>, <<"x2", OfTick(xTicks, [n \in 1..Len(xTicks) |-> XOf(xTicks[n])])>>,
                     <<"y2", toJS(plotHeight)>>, <<"stroke", Str(<<"#", "e", "0", "e", "0", "e", "0">>)>>,
                     <<"stroke-width", Num(1)>>>>)>>>>)
      points == [n \in 1..Len(data) |->
                   [x |-> linearScale(xScale, xValues[n]), y |-> linearScale(yScale, yValues[n])]]
      linePath == linePathOf(points, Len(points))
      areaPath ==
        linePath \o <<" ", "L", " ">> \o NumberText(points[Len(points)].x) \o <<" ">> \o NumberText(plotHeight)
        \o <<" ", "L", " ">> \o NumberText(points[1].x) \o <<" ">> \o NumberText(plotHeight) \o <<" ", "Z">>
      cxOfI == FnOfI([n \in 1..Len(data) |-> XOf(xValues[n])])
      cyOfI == FnOfI([n \in 1..Len(data) |-> YOf(yValues[n])])
      perItem == DivF(plotWidth, Norm(Len(data), 0))
      barWidth == MaxF(Fin(1, 0), MulF(perItem, Fin(8, -1)))
      xAxisGroup ==
        Obj(<<<<"transform", Str(<<"t", "r", "a", "n", "s", "l", "a", "t", "e", "(", "0", ",", " ">> \o NumberText(plotHeight) \o <<")">>)>>,
              <<"line", Obj(<<<<"x1", Num(0)>>, <<"y1", Num(0)>>, <<"x2", toJS(plotWidth)>>,
                              <<"y2", Num(0)>>, <<"stroke", Str(<<"#", "3", "3", "3">>)>>,
                              <<"stroke-width", Num(1)>>>>)>>,
              <<"g", Obj(<<<<"$each", TickItems(xTicks)>>,
                           <<"transform",
                             OfTick(xTicks, [n \in 1..Len(xTicks) |->
                               Str(<<"t", "r", "a", "n", "s", "l", "a", "t", "e", "(">> \o NumberText(linearScale(xScale, xTicks[n])) \o <<",", " ", "0", ")">>)])>>,
                           <<"line", Obj(<<<<"x1", Num(0)>>, <<"y1", Num(0)>>, <<"x2", Num(0)>>,
                                           <<"y2", Num(5)>>, <<"stroke", Str(<<"#", "3", "3", "3">>)>>>>)>>,
                           <<"text", Obj(<<<<"x", Num(0)>>, <<"y", Num(18)>>,
                                           <<"text-anchor", Str(<<"m", "i", "d", "d", "l", "e">>)>>,
                                           <<"font-size", Num(11)>>, <<"fill", Str(<<"#", "6", "6", "6">>)>>,
                                           <<"$text", OfTick(xTicks, [n \in 1..Len(xTicks) |-> Str(defaultFormat(xTicks[n]))])>>>>)>>>>)>>>>
            \o EntryIf(Truthy(xLabel), "text",
                 Obj(<<<<"x", toJS(DivF(plotWidth, Fin(2, 0)))>>, <<"y", Num(38)>>,
                       <<"text-anchor", Str(<<"m", "i", "d", "d", "l", "e">>)>>, <<"font-size", Num(12)>>,
                       <<"fill", Str(<<"#", "3", "3", "3">>)>>, <<"$text", xLabel>>>>)))
      yAxisGroup ==
        Obj(<<<<"line", Obj(<<<<"x1", Num(0)>>, <<"y1", Num(0)>>, <<"x2", Num(0)>>,
                              <<"y2", toJS(plotHeight)>>, <<"stroke", Str(<<"#", "3", "3", "3">>)>>,
                              <<"stroke-width", Num(1)>>>>)>>,
              <<"g", Obj(<<<<"$each", TickItems(yTicks)>>,
                           <<"transform",
                             OfTick(yTicks, [n \in 1..Len(yTicks) |->
                               Str(<<"t", "r", "a", "n", "s", "l", "a", "t", "e", "(", "0", ",", " ">> \o NumberText(linearScale(yScale, yTicks[n])) \o <<")">>)])>>,
                           <<"line", Obj(<<<<"x1", Num(-5)>>, <<"y1", Num(0)>>, <<"x2", Num(0)>>,
                                           <<"y2", Num(0)>>, <<"stroke", Str(<<"#", "3", "3", "3">>)>>>>)>>,
                           <<"text", Obj(<<<<"x", Num(-8)>>, <<"y", Num(4)>>,
                                           <<"text-anchor", Str(<<"e", "n", "d">>)>>,
                                           <<"font-size", Num(11)>>, <<"fill", Str(<<"#", "6", "6", "6">>)>>,
                                           <<"$text", OfTick(yTicks, [n \in 1..Len(yTicks) |-> Str(defaultFormat(yTicks[n]))])>>>>)>>>>)>>>>
            \o EntryIf(Truthy(yLabel), "text",
                 Obj(<<<<"x", Num(0)>>, <<"y", Num(0)>>,
                       <<"transform", Str(<<"t", "r", "a", "n", "s", "l", "a", "t", "e", "(", "-", "4", "0", ",", " ">> \o NumberText(DivF(plotHeight, Fin(2, 0)))
                                          \o <<")", " ", "r", "o", "t", "a", "t", "e", "(", "-", "9", "0", ")">>)>>,
                       <<"text-anchor", Str(<<"m", "i", "d", "d", "l", "e">>)>>, <<"font-size", Num(12)>>,
                       <<"fill", Str(<<"#", "3", "3", "3">>)>>, <<"$text", yLabel>>>>)))
  IN IF ~xT.returns \/ ~yT.returns THEN [definition |-> <<>>, thrown |-> "", returns |-> FALSE]
     ELSE IF type = "area" /\ data = <<>>
     THEN [definition |-> <<>>, thrown |-> "TypeError", returns |-> TRUE]
     ELSE [definition |->
             Only({plotDescription(config, top, left, gridLines, marks, axisGroups) :
                     gridLines \in
                       {
                        (IF yOn /\ Get(yAxisConfig.e, "grid") # Bool(FALSE) THEN <<yGrid>> ELSE <<>>)
                        \o (IF xOn /\ Truthy(Get(xAxisConfig.e, "grid")) THEN <<xGrid>> ELSE <<>>)
                       },
                     marks \in
                       {
                        CASE type = "scatter" ->
                               <<<<"circle",
                                   Obj(<<<<"$each", Arr(data)>>, <<"cx", cxOfI>>, <<"cy", cyOfI>>,
                                         <<"r", FnK(Num(4))>>, <<"fill", FnK(Str(color))>>>>)>>>>
                          [] type \in {"line", "area"} ->
                               <<<<"path",
                                   IF type = "area"
                                   THEN Arr(<<Obj(<<<<"d", Str(areaPath)>>, <<"fill", Str(color)>>,
                                                    <<"opacity", Str(<<"0", ".", "3">>)>>>>),
                                              Obj(<<<<"d", Str(linePath)>>, <<"fill", Str(<<"n", "o", "n", "e">>)>>,
                                                    <<"stroke", Str(color)>>, <<"stroke-width", Num(2)>>>>)>>)
                                   ELSE Obj(<<<<"d", Str(linePath)>>, <<"fill", Str(<<"n", "o", "n", "e">>)>>,
                                              <<"stroke", Str(color)>>, <<"stroke-width", Num(2)>>,
                                              <<"stroke-linecap", Str(<<"r", "o", "u", "n", "d">>)>>,
                                              <<"stroke-linejoin", Str(<<"r", "o", "u", "n", "d">>)>>>>)>>,
                                 <<"circle",
                                   Obj(<<<<"$each", Arr(data)>>, <<"cx", cxOfI>>, <<"cy", cyOfI>>,
                                         <<"r", Num(3)>>, <<"fill", Str(color)>>>>)>>>>
                          [] type = "bar" ->
                               <<<<"rect",
                                   Obj(<<<<"$each", Arr(data)>>,
                                         <<"x", FnOfI([n \in 1..Len(data) |->
                                                  toJS(SubF(linearScale(xScale, xValues[n]),
                                                            DivF(barWidth, Fin(2, 0))))])>>,
                                         <<"y", FnOfI([n \in 1..Len(data) |->
                                                  toJS(MinF(linearScale(yScale, yValues[n]),
                                                            linearScale(yScale, Zero)))])>>,
                                         <<"width", toJS(barWidth)>>,
                                         <<"height", FnOfI([n \in 1..Len(data) |->
                                                  toJS(AbsF(SubF(linearScale(yScale, yValues[n]),
                                                                 linearScale(yScale, Zero))))])>>,
                                         <<"fill", FnK(Str(color))>>, <<"rx", Num(2)>>>>)>>>>
                          [] OTHER -> <<>>
                       },
                     axisGroups \in
                       {(IF xOn THEN <<xAxisGroup>> ELSE <<>>)
                        \o (IF yOn THEN <<yAxisGroup>> ELSE <<>>)}}),
           thrown |-> "", returns |-> TRUE]

\* plot from the nice domains on: the two scales and the ticks of the two axes, each a
\* const computed once
plotScales(config, top, left, plotWidth, plotHeight, xValues, yValues, xNice, yNice) ==
  Only({plotElements(config, top, left, plotWidth, plotHeight, xValues, yValues,
                     xScale, yScale, xT, yT) :
          xScale \in {createLinearScale(<<xNice.min, xNice.max>>, <<Zero, plotWidth>>)},
          yScale \in {createLinearScale(<<yNice.min, yNice.max>>, <<plotHeight, Zero>>)},
          xT \in {generateTicks(xNice.min, xNice.max, xNice.step)},
          yT \in {generateTicks(yNice.min, yNice.max, yNice.step)}})

\* plot from the extents of the data on: the nice domains, the y domain of bars from 0,
\* each a const computed once
plotDomains(config, top, left, plotWidth, plotHeight, xValues, yValues, xExtent, yExtent) ==
  Only({plotScales(config, top, left, plotWidth, plotHeight, xValues, yValues, xNice, yNice) :
          xNice \in {niceScale(xExtent[1], xExtent[2], Fin(5, 0))},
          yNice \in {niceScale(IF config.type = "bar" THEN MinF(Zero, yExtent[1])
                                ELSE yExtent[1],
                                yExtent[2], Fin(5, 0))}})

\* plot from the margins on: the size of the plot area and the extents of the data
plotArea(config, top, right, bottom, left, xValues, yValues) ==
  plotDomains(config, top, left,
              SubF(SubF(config.width, left), right), SubF(SubF(config.height, top), bottom),
              xValues, yValues, extent(xValues), extent(yValues))

\* The description plot(config, options) hands to svg, or the error it raises before,
\* for a config that leaves color, radius, margin, background and the tick counts to
\* their defaults and whose accessors are d => d.x and d => d.y
plotDefinition(config) ==
  LET data == config.data
      xOn == config.xAxis # Bool(FALSE)
      yOn == config.yAxis # Bool(FALSE)
      xLabel == IF xOn THEN Get(config.xAxis.e, "label") ELSE Undefined
      yLabel == IF yOn THEN Get(config.yAxis.e, "label") ELSE Undefined
  IN plotArea(config,
              IF Truthy(config.title) THEN Fin(4, 1) ELSE Fin(2, 1),
              Fin(2, 1),
              IF xOn /\ Truthy(xLabel) THEN Fin(5, 1) ELSE Fin(35, 0),
              IF yOn /\ Truthy(yLabel) THEN Fin(6, 1) ELSE Fin(45, 0),
              [n \in 1..Len(data) |-> fromJS(Get(data[n].e, "x"))],
              [n \in 1..Len(data) |-> fromJS(Get(data[n].e, "y"))])

-----------------------------------------------------------------------------

\* return svg(...) at the end of plot, where plot gets there
plotRender(built, options) ==
  IF built.returns /\ built.thrown = ""
  THEN LET r == svg(built.definition, options)
       IN [out |-> r.out, thrown |-> r.thrown, tr |-> r.tr,
           definition |-> built.definition, returns |-> TRUE]
  ELSE [out |-> <<>>, thrown |-> built.thrown, tr |-> <<>>,
        definition |-> <<>>, returns |-> built.returns]

\* plot(config, options): the string returned or the error raised, and the history;
\* returns is FALSE if the call never returns
plot(config, options) == plotRender(plotDefinition(config), options)

-----------------------------------------------------------------------------
(* Inputs: bounded sets of descriptions and options *)

MaxAttrs == 2
MaxStrLen == 3
MaxItems == 3

\* Sequences of at most n elements of S
SeqsUpTo(S, n) == UNION {[1..k -> S] : k \in 0..n}

\* Objects of at most n entries: keys from K (each at most once), values from V
Objects(K, V, n) ==
  {e \in SeqsUpTo(K \X V, n) : \A a, b \in 1..Len(e) : e[a][1] = e[b][1] => a = b}

\* An entry that may be left out: no entry, or key with one of the values
Optional(key, V) == {<<>>} \cup {<<<<key, v>>>> : v \in V}

\* no options, { pretty: false }, { pretty: true }
OptionsSet == {<<>>, <<<<"pretty", Bool(FALSE)>>>>, <<<<"pretty", Bool(TRUE)>>>>}

\* The characters the escapers replace, and one they leave alone
EscapeAlphabet == {"a", "&", "\"", "<", ">"}

EscapeStrings == SeqsUpTo(EscapeAlphabet, MaxStrLen)

AttrValues ==
  {Null, Undefined, Bool(FALSE), Bool(TRUE), Num(0), Num(100), NaN,
   Str(<<>>), Str(<<"a">>), Str(<<"<", "&">>),
   FnK(Null), FnK(Undefined), FnK(Bool(FALSE)), FnK(Num(0)), FnK(Str(<<>>)),
   FnK(Str(<<"a", "\"">>)), Fn("i"), Fn("d")}

\* Root descriptions that hold attributes only
RootAttrDescriptions == Objects({"xmlns", "width", "id"}, AttrValues, MaxAttrs)

\* A rect with attributes, alone or repeated over [null, "<"]
ChildAttrDescriptions ==
  {<<<<"width", Num(100)>>, <<"rect", Obj(each \o attrs)>>>> :
     each \in Optional("$each", {Arr(<<Null, Str(<<"<">>)>>)}),
     attrs \in Objects({"x", "fill"}, AttrValues, MaxAttrs)}

\* One string, static or computed, as an attribute, as $text and as $raw
EscapeDescriptions ==
  UNION {
    { <<<<"id", v>>>>,
      <<<<"rect", Obj(<<<<"fill", v>>>>)>>>>,
      <<<<"text", Obj(<<<<"$text", v>>>>)>>>>,
      <<<<"g", Obj(<<<<"x", Num(0)>>, <<"$raw", v>>>>)>>>> } :
    v \in {Str(s) : s \in EscapeStrings} \cup {FnK(Str(s)) : s \in EscapeStrings}}

AttrDescriptions == RootAttrDescriptions \cup ChildAttrDescriptions \cup EscapeDescriptions

\* The items of the repeated arrays
Items == {Num(1), Num(2), Str(<<"A">>)}

\* $each sources that resolve to an array: static, or returned by a function
EachSources ==
  {Arr(a) : a \in SeqsUpTo(Items, MaxItems)} \cup {FnK(Arr(a)) : a \in SeqsUpTo(Items, MaxItems)}

IfValues ==
  {Bool(TRUE), Bool(FALSE), Num(0), Num(1), Str(<<>>), Null, NaN, Undefined,
   Fn("even"), Fn("i"), Fn("d"), Fn("dataLength"), FnK(Undefined), FnK(NaN)}

\* A rect repeated over an array, with or without a condition
EachDescriptions ==
  {<<<<"width", Num(100)>>,
     <<"rect", Obj(<<<<"$each", src>>>> \o cond
                   \o <<<<"x", Fn("i")>>, <<"width", Fn("d")>>>>)>>>> :
     src \in EachSources, cond \in Optional("$if", IfValues)}

\* The items of the outer array of a two-level repeat: arrays, and one that is none
OuterItems == {Arr(<<>>), Arr(<<Num(1)>>), Arr(<<Num(1), Num(2)>>), Num(5)}

InnerSources == {Fn("d"), Fn("data"), Arr(<<Num(7), Num(8)>>), FnK(Arr(<<Num(7)>>))}

\* A g repeated over an array, holding a rect repeated over an array
NestedDescriptions ==
  {<<<<"g", Obj(<<<<"$each", Arr(outer)>>, <<"id", Fn("i")>>,
                  <<"rect", Obj(<<<<"$each", inner>>>> \o cond
                                \o <<<<"x", Fn("i")>>, <<"width", Fn("d")>>,
                                     <<"fill", Fn("parentI")>>, <<"id", Fn("parentD")>>>>)>>>>)>>>> :
     outer \in SeqsUpTo(OuterItems, MaxItems), inner \in InnerSources,
     cond \in Optional("$if", {Fn("even"), Fn("parentI"), Bool(FALSE)})}

\* Value functions at the root and, through plain nesting, an array of siblings and a
\* primitive child, under a g that is repeated or not
PlainNestDescriptions ==
  {<<<<"id", Fn("d")>>, <<"width", Fn("i")>>,
     <<"g", Obj(each \o
         <<<<"x", Fn("i")>>,
           <<"g", Obj(<<<<"fill", Fn("d")>>,
                        <<"rect", Arr(<<Obj(<<<<"x", Fn("index")>>>>),
                                        Obj(<<<<"$if", Fn("even")>>, <<"fill", Fn("value")>>>>)>>)>>,
                        <<"text", Obj(<<<<"$text", Fn("dataLength")>>, <<"$raw", Fn("d")>>>>)>>,
                        <<"title", Fn("i")>>>>)>>>>)>>>> :
     each \in Optional("$each", EachSources)}

RepeatDescriptions == EachDescriptions \cup NestedDescriptions \cup PlainNestDescriptions

\* Conditions that are falsy, statically and as the return of a function, and truthy ones
Conditions ==
  {Bool(FALSE), Num(0), Str(<<>>), Null, Undefined, NaN,
   FnK(Bool(FALSE)), FnK(Num(0)), FnK(Str(<<>>)), FnK(Null), FnK(Undefined), FnK(NaN),
   Bool(TRUE), Str(<<"a">>), Fn("d"), Fn("i")}

\* What stands under a conditional node: value functions on the node and below it
Guarded ==
  <<<<"x", Fn("i")>>, <<"$text", Fn("dataLength")>>, <<"$raw", Fn("d")>>,
    <<"rect", Obj(<<<<"$each", Fn("data")>>, <<"$if", Fn("even")>>, <<"fill", Fn("d")>>>>)>>,
    <<"title", Fn("i")>>>>

\* A g or a text with a condition, written before or after its other entries, alone or
\* repeated
IfDescriptions ==
  {<<<<tag, Obj(each \o (IF first THEN <<<<"$if", cond>>>> \o Guarded
                                  ELSE Guarded \o <<<<"$if", cond>>>>))>>>> :
     tag \in {"g", "text"}, cond \in Conditions, first \in BOOLEAN,
     each \in Optional("$each", {Arr(<<Num(1), Num(0), Str(<<"A">>)>>)})}

TextValues ==
  {Str(<<"a", "<">>), Str(<<>>), Num(0), Null, Fn("d"), FnK(Str(<<"\"", "&">>)),
   FnK(Undefined)}

RawValues ==
  {Str(<<"<", "a", ">">>), Str(<<>>), Null, Undefined, Num(0), Bool(FALSE), NaN,
   Fn("d"), FnK(Str(<<"&", "\"">>)), FnK(Str(<<>>)), FnK(Null)}

\* The entries of a node with content, each of them optional
ContentEntries ==
  {cond \o x \o text \o raw \o kid :
     cond \in Optional("$if", {Fn("d")}),
     x \in Optional("x", {Fn("i")}),
     text \in Optional("$text", TextValues),
     raw \in Optional("$raw", RawValues),
     kid \in Optional("tspan", {Obj(<<<<"x", Fn("i")>>>>)})}

\* The entries of e in the opposite order
Reversed(e) == [n \in 1..Len(e) |-> e[Len(e) + 1 - n]]

\* A text or a g with content, its entries in either order, alone or repeated
ContentDescriptions ==
  {<<<<tag, Obj(each \o (IF forward THEN e ELSE Reversed(e)))>>>> :
     tag \in {"text", "g"}, e \in ContentEntries, forward \in BOOLEAN,
     each \in Optional("$each", {Arr(<<Str(<<"<", "b", ">">>), Str(<<>>)>>)})}

\* One string, static or computed, as the $text of a text or a g and as a $raw
StringContentDescriptions ==
  UNION {
    { <<<<"text", Obj(<<<<"id", Num(1)>>, <<"$text", v>>>>)>>>>,
      <<<<"g", Obj(<<<<"$text", v>>>>)>>>>,
      <<<<"g", Obj(<<<<"$raw", v>>, <<"id", Num(1)>>>>)>>>>,
      <<<<"text", Obj(<<<<"$raw", v>>>>)>>>> } :
    v \in {Str(s) : s \in EscapeStrings} \cup {FnK(Str(s)) : s \in EscapeStrings}}

AllContentDescriptions == IfDescriptions \cup ContentDescriptions \cup StringContentDescriptions

\* $each sources that resolve to no array: static, or returned by a function
NonArrays ==
  {Null, Num(0), Num(5), Str(<<>>), Str(<<"A">>), Obj(<<>>), Obj(<<<<"x", Num(1)>>>>),
   Bool(TRUE), NaN}

NonArraySources == NonArrays \cup {FnK(v) : v \in NonArrays} \cup {Fn("d"), Fn("i")}

\* The other entries of a node with a malformed $each: value functions that would be
\* recorded, or would raise, if they were evaluated
MalformedBodies ==
  {<<<<"$if", Fn("throw")>>, <<"x", Fn("i")>>, <<"$text", Fn("d")>>, <<"$raw", Fn("throw")>>,
     <<"tspan", Obj(<<<<"x", Fn("throw")>>>>)>>, <<"title", Fn("i")>>>>,
   <<<<"x", Fn("i")>>, <<"tspan", Obj(<<<<"x", Fn("i")>>>>)>>>>}

\* A rect with a malformed $each, written before or after its other entries, between
\* sibling keys of the root
MalformedDescriptions ==
  {<<<<"id", Fn("i")>>, <<"g", Obj(<<<<"x", Fn("dataLength")>>>>)>>,
     <<"rect", Obj(IF first THEN <<<<"$each", bad>>>> \o body
                            ELSE body \o <<<<"$each", bad>>>>)>>,
     <<"circle", Obj(<<<<"fill", Fn("d")>>>>)>>, <<"width", Num(100)>>>> :
     bad \in NonArraySources, body \in MalformedBodies, first \in BOOLEAN}

\* A g repeated over items some of which are arrays, holding a rect repeated over the item
MixedItems == {Num(5), Arr(<<Num(1), Num(2)>>), Str(<<"A">>), Null, Arr(<<>>)}

MalformedItemDescriptions ==
  {<<<<"g", Obj(<<<<"$each", Arr(items)>>, <<"id", Fn("i")>>,
                  <<"rect", Obj(<<<<"$each", Fn("d")>>, <<"x", Fn("i")>>, <<"fill", Fn("parentI")>>>>)>>,
                  <<"circle", Obj(<<<<"x", Fn("i")>>>>)>>>>)>>>> :
     items \in SeqsUpTo(MixedItems, MaxItems)}

AllMalformedDescriptions == MalformedDescriptions \cup MalformedItemDescriptions

\* The slots of a description that a value function fills
ThrowSlots == 1..13

\* What fills a slot: its own function, one that throws, or (outside the repeated rect)
\* one that throws because the context has no parent
SlotFunction(slot, kind, cond) ==
  IF kind = "throw" THEN Fn("throw")
  ELSE IF kind = "parentD" /\ slot \notin {6, 7} THEN Fn("parentD")
  ELSE CASE slot = 1 -> Fn("i")
         [] slot = 2 -> FnK(Bool(cond))
         [] slot = 3 -> Fn("d")
         [] slot = 4 -> Fn("i")
         [] slot = 5 -> FnK(Arr(<<Num(1), Num(2)>>))
         [] slot = 6 -> Fn("even")
         [] slot = 7 -> Fn("parentI")
         [] slot = 8 -> Fn("i")
         [] slot = 9 -> Fn("dataLength")
         [] slot = 10 -> Fn("index")
         [] slot = 11 -> Fn("i")
         [] slot = 12 -> Fn("i")
         [] slot = 13 -> FnK(Num(7))

\* A description with a value function in every kind of place: f[slot] fills the slot
SlotDescription(f) ==
  <<<<"id", f[1]>>,
    <<"g", Obj(<<<<"$if", f[2]>>, <<"x", f[3]>>, <<"$key", f[13]>>, <<"$text", f[4]>>,
                 <<"rect", Obj(<<<<"$each", f[5]>>, <<"$if", f[6]>>, <<"fill", f[7]>>>>)>>,
                 <<"title", f[8]>>, <<"$raw", f[9]>>>>)>>,
    <<"circle", Arr(<<Obj(<<<<"x", f[10]>>>>), f[11]>>)>>,
    <<"width", f[12]>>>>

\* Descriptions in which at most two slots hold a function that throws
ThrowDescriptions ==
  {SlotDescription([slot \in ThrowSlots |->
                      SlotFunction(slot,
                                   IF slot = p THEN kp ELSE IF slot = q THEN kq ELSE "own",
                                   cond)]) :
     p \in ThrowSlots, q \in ThrowSlots, kp \in {"own", "throw", "parentD"},
     kq \in {"own", "throw"}, cond \in BOOLEAN}

\* What a g may hold besides its children: text content, raw content
FormatContents ==
  {text \o raw :
     text \in Optional("$text", {Str(<<"t">>), Fn("i")}),
     raw \in Optional("$raw", {Str(<<"r">>), Fn("dataLength")})}

\* Three structural levels under the root, with a repeat, an array of siblings, a text
\* leaf, a primitive child and empty elements on the way; values hold no white space
\* and no markup characters
FormatDescriptions ==
  {<<<<"width", Num(100)>>>> \o rootContent \o
   <<<<"g", Obj(each \o <<<<"x", Fn("i")>>>> \o content \o
       <<<<"g", Obj(<<<<"rect", Arr(<<Obj(<<<<"x", Num(1)>>>>),
                                     Obj(<<<<"$each", Arr(<<Num(1), Num(2)>>)>>,
                                           <<"x", Fn("d")>>, <<"tspan", Obj(inner)>>>>),
                                     Obj(<<<<"$if", Bool(FALSE)>>>>)>>)>>,
                    <<"text", Obj(<<<<"$text", Str(<<"T">>)>>, <<"x", Num(2)>>>>)>>,
                    <<"title", Num(1)>>>>)>>,
         <<"circle", Obj(<<>>)>>>>)>>,
     <<"filter", Obj(inner)>>>> :
     rootContent \in FormatContents, content \in FormatContents,
     each \in Optional("$each", {Arr(<<>>), Arr(<<Str(<<"A">>), Num(0)>>)}),
     inner \in {<<>>, <<<<"$text", Str(<<"u">>)>>>>}}

\* Keys of every class: element names, directives, plain attribute names, a name that
\* looks like an element but is none (div), and a name that only begins with $
ClassKeys == {"filter", "div", "x", "$foo", "$key", "$raw"}

\* The value of key in a description: static, or computed
KeyValue(key, static) ==
  CASE key = "filter" -> IF static THEN Obj(<<<<"id", Num(1)>>>>) ELSE Fn("i")
    [] key = "$raw" -> IF static THEN Str(<<"r">>) ELSE FnK(Str(<<"r">>))
    [] key = "$key" -> IF static THEN Str(<<"k">>) ELSE Fn("i")
    [] OTHER -> IF static THEN Str(<<"v">>) ELSE Fn("i")

\* Entries with distinct keys from ClassKeys, in any order
ClassEntries ==
  {[n \in 1..Len(ks) |-> <<ks[n], KeyValue(ks[n], static[n])>>] :
     ks \in {q \in SeqsUpTo(ClassKeys, MaxAttrs) : \A a, b \in 1..Len(q) : q[a] = q[b] => a = b},
     static \in [1..MaxAttrs -> BOOLEAN]}

\* The entries at the root, or on a g under the root, alone or repeated
KeyDescriptions ==
  ClassEntries
  \cup {<<<<"g", Obj(each \o e)>>>> :
          e \in ClassEntries, each \in Optional("$each", {Arr(<<Num(5), Num(6)>>)})}

\* What a $key may hold: a string, a number, null, a function, a function that throws
KeyChoices == {Str(<<"k">>), Num(7), Null, Fn("i"), Fn("throw")}

\* Descriptions with a $key, or none, on the root, on a g (alone or repeated) and on
\* the first of two sibling rects
KeyedDescriptions ==
  {kr \o <<<<"width", Num(1)>>,
     <<"g", Obj(each \o <<<<"x", Fn("i")>>>> \o kg \o
              <<<<"rect", Arr(<<Obj(kc \o <<<<"fill", Fn("d")>>>>),
                               Obj(<<<<"id", Num(2)>>>>)>>)>>>>)>>>> :
     kr \in Optional("$key", KeyChoices),
     kg \in Optional("$key", KeyChoices),
     kc \in Optional("$key", KeyChoices),
     each \in Optional("$each", {Arr(<<Num(5), Num(6)>>)})}

\* What an array under a structural key may hold: plain descriptions, a description
\* with a condition, a repeated description, a primitive
ArrayItems ==
  {Obj(<<<<"x", Fn("i")>>>>), Obj(<<>>),
   Obj(<<<<"$if", Fn("even")>>, <<"fill", Fn("d")>>>>),
   Obj(<<<<"$each", Arr(<<Str(<<"a">>), Str(<<"b">>)>>)>>, <<"x", Fn("index")>>, <<"fill", Fn("d")>>>>),
   Str(<<"t">>)}

\* A g, alone or repeated, whose rect is an array of at most MaxItems elements, between
\* an attribute and a single circle; or the same array right under the root
ArrayDescriptions ==
  {<<<<"g", Obj(each \o <<<<"x", Fn("i")>>, <<"rect", Arr(items)>>,
                         <<"circle", Obj(<<<<"id", Fn("d")>>>>)>>>>)>>>> :
     items \in SeqsUpTo(ArrayItems, MaxItems),
     each \in Optional("$each", {Arr(<<Num(5), Num(6)>>)})}
  \cup {<<<<"width", Num(1)>>, <<"rect", Arr(items)>>>> : items \in SeqsUpTo(ArrayItems, MaxItems)}

\* The largest digit string of a number handed to the engine
MaxMantissa == 5

\* The powers of ten the numbers handed to niceScale are scaled by: hundredths, units,
\* tens, and the top of the range of a double
ScaleExponents == {-2, 0, 1, 308}

\* The finite numbers handed to niceScale
ScaleNumbers ==
  {n \in {Norm(m, x) : m \in (-MaxMantissa)..MaxMantissa, x \in ScaleExponents} : n.k = "fin"}

\* The arguments of niceScale(min, max): finite, max > min, of one scale
ScaleInputs ==
  {a \in {[min |-> Norm(lo, x), max |-> Norm(hi, x)] :
            lo \in (-MaxMantissa)..MaxMantissa, hi \in (-MaxMantissa)..MaxMantissa,
            x \in ScaleExponents} :
     a.min.k = "fin" /\ a.max.k = "fin"}

\* No call of svg
NoSvg ==
  /\ svgDefinition = <<>>
  /\ svgOptions = <<>>
  /\ result = [out |-> <<>>, thrown |-> ""]
  /\ trace = <<>>

\* ret = niceScale(args.min, args.max), maxTicks left to its default of 5
CallNiceScale ==
  /\ pc = "ready"
  /\ ret' = niceScale(args.min, args.max, Fin(5, 0))
  /\ pc' = "done"
  /\ UNCHANGED <<svgDefinition, svgOptions, result, trace, args, loopV, ticks>>

InitScale ==
  /\ args \in {a \in ScaleInputs : LtF(a.min, a.max)}
  /\ pc = "ready"
  /\ loopV = <<>>
  /\ ticks = <<>>
  /\ ret = <<>>
  /\ NoSvg

NextScale == CallNiceScale

SpecScale == InitScale /\ [][NextScale]_vars

\* Where a run of ticks starts: 0, -1, 0.3, 1e18
TickStarts == {Zero, Fin(-1, 0), Fin(3, -1), Fin(1, 18)}

\* The steps between ticks: 1, 0.5, 0.02, 1e-11
TickSteps == {Fin(1, 0), Fin(5, -1), Fin(2, -2), Fin(1, -11)}

\* The arguments of generateTicks(min, max, step): what niceScale returned, or a start,
\* a step, and the max some whole number of steps above the start (from 1e18 a small
\* step leads nowhere: 1e18 + 1 is 1e18)
TickInputs ==
  {r \in {niceScale(a.min, a.max, Fin(5, 0)) : a \in {b \in ScaleInputs : LtF(b.min, b.max)}} :
     r.min.k = "fin" /\ r.max.k = "fin" /\ r.step.k = "fin"}
  \cup {[min |-> lo, max |-> AddF(lo, MulF(Fin(n, 0), st)), step |-> st] :
          lo \in {Zero}, st \in TickSteps, n \in 0..MaxMantissa}
  \cup {[min |-> lo, max |-> AddF(lo, MulF(Fin(n, 0), st)), step |-> st] :
          lo \in TickStarts \ {Zero}, st \in TickSteps \ {Fin(1, -11)}, n \in 0..MaxMantissa}

\* const ticks = []; let v = min
ForInit ==
  /\ pc = "ready"
  /\ ticks' = <<>>
  /\ loopV' = args.min
  /\ pc' = "loop"
  /\ UNCHANGED <<svgDefinition, svgOptions, result, trace, args, ret>>

\* v <= max + step * 0.5: ticks.push(Math.round(v * 1e10) / 1e10); v += step
ForBody ==
  /\ pc = "loop"
  /\ ticksContinue(loopV, args.max, args.step)
  /\ Len(ticks) < MaxTicks
  /\ ticks' = Append(ticks, tickOf(loopV))
  /\ loopV' = AddF(loopV, args.step)
  /\ UNCHANGED <<svgDefinition, svgOptions, result, trace, args, ret, pc>>

\* the loop is left: return ticks
ForExit ==
  /\ pc = "loop"
  /\ ~ticksContinue(loopV, args.max, args.step)
  /\ ret' = ticks
  /\ pc' = "done"
  /\ UNCHANGED <<svgDefinition, svgOptions, result, trace, args, loopV, ticks>>

InitTicks ==
  /\ args \in TickInputs
  /\ pc = "ready"
  /\ loopV = <<>>
  /\ ticks = <<>>
  /\ ret = <<>>
  /\ NoSvg

NextTicks == ForInit \/ ForBody \/ ForExit

SpecTicks == InitTicks /\ [][NextTicks]_vars

\* The ends of a domain: equal ends make it degenerate
DomainValues == {Zero, Fin(1, 0), Fin(5, 0)}

\* The ends of a range
RangeValues == {Zero, Fin(1, 1), Fin(1, 2)}

\* The values handed to the function createLinearScale returns
ScaleValues == {Zero, Fin(1, 0), Fin(2, 0)}

\* ret = createLinearScale(args.domain, args.range)
CallCreateLinearScale ==
  /\ pc = "ready"
  /\ ret' = createLinearScale(args.domain, args.range)
  /\ pc' = "made"
  /\ UNCHANGED <<svgDefinition, svgOptions, result, trace, args, loopV, ticks>>

\* ret(value), for some value: the call and what it returned are added to the history
CallLinearScale ==
  /\ pc = "made"
  /\ Len(trace) < MaxItems
  /\ \E value \in ScaleValues :
       trace' = Append(trace, [e |-> "scale", value |-> value, out |-> linearScale(ret, value)])
  /\ UNCHANGED <<svgDefinition, svgOptions, result, args, loopV, ticks, ret, pc>>

InitLinear ==
  /\ args \in [domain : DomainValues \X DomainValues, range : RangeValues \X RangeValues]
  /\ pc = "ready"
  /\ loopV = <<>>
  /\ ticks = <<>>
  /\ ret = <<>>
  /\ NoSvg

NextLinear == CallCreateLinearScale \/ CallLinearScale

SpecLinear == InitLinear /\ [][NextLinear]_vars

\* The data points of the plots
PlotPoints ==
  {Obj(<<<<"x", Num(0)>>, <<"y", Num(1)>>>>),
   Obj(<<<<"x", Num(2)>>, <<"y", Num(2)>>>>)}

\* What xAxis and yAxis may be: left out, false, with a label, with grid lines
AxisConfigs ==
  {Obj(<<>>), Bool(FALSE), Obj(<<<<"label", Str(<<"X">>)>>>>), Obj(<<<<"grid", Bool(TRUE)>>>>)}

\* The configs handed to plot, 365 by 300: every type over every dataset of at most
\* MaxItems points with the x-axis left out or false, and every type over one dataset
\* with every setting of the axes and the title
PlotConfigs ==
  [width : {Fin(365, 0)}, height : {Fin(3, 2)},
   data : SeqsUpTo(PlotPoints, MaxItems),
   type : {"scatter", "line", "bar", "area"},
   xAxis : {Obj(<<>>), Bool(FALSE)},
   yAxis : {Obj(<<>>)},
   title : {Undefined}]
  \cup
  [width : {Fin(365, 0)}, height : {Fin(3, 2)},
   data : {<<Obj(<<<<"x", Num(0)>>, <<"y", Num(1)>>>>), Obj(<<<<"x", Num(2)>>, <<"y", Num(2)>>>>)>>},
   type : {"scatter", "line", "bar", "area"},
   xAxis : AxisConfigs,
   yAxis : {Obj(<<>>), Bool(FALSE), Obj(<<<<"label", Str(<<"Y">>)>>>>)},
   title : {Undefined, Str(<<"T">>)}]

\* result = plot(args, svgOptions); a call that never returns leaves pc at "running"
CallPlot ==
  /\ pc = "ready"
  /\ \E r \in {plot(args, svgOptions)} :
        /\ result' = [out |-> r.out, thrown |-> r.thrown]
        /\ trace' = r.tr
        /\ svgDefinition' = r.definition
        /\ pc' = IF r.returns THEN "done" ELSE "running"
  /\ UNCHANGED <<svgOptions, args, loopV, ticks, ret>>

InitPlot ==
  /\ args \in PlotConfigs
  /\ svgOptions \in {<<>>}
  /\ svgDefinition = <<>>
  /\ pc = "ready"
  /\ result = [out |-> <<>>, thrown |-> ""]
  /\ trace = <<>>
  /\ loopV = <<>>
  /\ ticks = <<>>
  /\ ret = <<>>

NextPlot == CallPlot

SpecPlot == InitPlot /\ [][NextPlot]_vars

\* The entries of a node whose key order is to be told from its evaluation order: a
\* condition, an attribute, raw content, a repeated child with a child of its own, and
\* an array of a described and a computed sibling
OrderEntries ==
  <<<<"$if", Fn("even")>>,
    <<"x", Fn("i")>>,
    <<"$raw", Fn("index")>>,
    <<"rect", Obj(<<<<"fill", Fn("d")>>, <<"$each", Fn("data")>>,
                    <<"tspan", Obj(<<<<"x", Fn("parentI")>>>>)>>>>)>>,
    <<"circle", Arr(<<Obj(<<<<"id", Fn("i")>>>>), Fn("d")>>)>>>>

\* The entries of e in every order
Reordered(e) == {[n \in 1..Len(e) |-> e[p[n]]] : p \in Permutations(1..Len(e))}

\* Where text content and the $each source are written: before or after the rest
Around(first, e, last) == first \o e \o last

OrderSources == {Arr(<<Num(1), Num(0), Num(2)>>), FnK(Arr(<<Num(2), Num(1)>>))}

\* A g under the root, between two computed attributes of the root, its entries in
\* every order, alone or repeated
OrderDescriptions ==
  {<<<<"id", Fn("i")>>,
     <<"g", Obj(Around(IF eachFirst THEN each ELSE text, e, IF eachFirst THEN text ELSE each))>>,
     <<"width", Fn("dataLength")>>>> :
     e \in Reordered(OrderEntries),
     each \in Optional("$each", OrderSources),
     text \in Optional("$text", {Fn("value")}),
     eachFirst \in BOOLEAN}

\* Two attributes, text content, raw content and two children of one node
MixedEntries(text) ==
  <<<<"x", Fn("i")>>,
    <<"fill", Str(<<"a">>)>>,
    <<"$text", text>>,
    <<"$raw", Str(<<"<", "r", "/", ">">>)>>,
    <<"rect", Obj(<<<<"width", Fn("d")>>>>)>>,
    <<"circle", Obj(<<>>)>>>>

\* A g or a text whose attributes, children, text content and raw content are written
\* in every order, alone or repeated; the text content is empty or not
MixedDescriptions ==
  {<<<<tag, Obj(each \o e)>>>> :
     tag \in {"g", "text"},
     e \in UNION {Reordered(MixedEntries(text)) : text \in {Str(<<"t", "<">>), FnK(Str(<<>>))}},
     each \in Optional("$each", {Arr(<<Num(1), Num(2)>>)})}

\* Keys of the element allowlist
ElementKeys == {"filter", "mask", "title", "a", "set", "path"}

\* Values that are no description: strings, numbers, null, undefined, booleans, and
\* functions that return such values
PrimitiveValues ==
  {Str(<<"u", "r", "l", "(", "#", "s", ")">>), Str(<<"<", "&", "\"">>), Str(<<>>),
   Num(0), Num(5), NaN, Null, Undefined, Bool(TRUE), Bool(FALSE),
   Fn("i"), Fn("d"), FnK(Null), FnK(Undefined), FnK(Str(<<"a", "<", "\"">>))}

\* An element key with a value that is no description: on a rect, alone or repeated,
\* after an attribute and before another or none, and on the root
ElementKeyDescriptions ==
  {<<<<"rect", Obj(each \o <<<<"x", Num(1)>>, <<key, v>>>> \o after)>>>> :
     key \in ElementKeys, v \in PrimitiveValues,
     each \in Optional("$each", {Arr(<<Num(7), Str(<<"<">>)>>)}),
     after \in Optional("fill", {Fn("d")})}
  \cup {<<<<key, v>>, <<"width", Num(1)>>>> : key \in ElementKeys, v \in PrimitiveValues}

\* Children that render to nothing (a falsy condition, a repeat over nothing, a repeat
\* over what is no array, an empty array, an array of such) and children that render to
\* something
ChildKinds ==
  {Obj(<<<<"$if", Bool(FALSE)>>, <<"x", Num(1)>>>>), Obj(<<<<"$if", Fn("i")>>>>),
   Obj(<<<<"$each", Arr(<<>>)>>, <<"x", Num(1)>>>>), Obj(<<<<"$each", FnK(Arr(<<>>))>>>>),
   Obj(<<<<"$each", Num(5)>>>>), Obj(<<<<"$each", Fn("d")>>>>),
   Arr(<<>>), Arr(<<Obj(<<<<"$if", Num(0)>>>>), Arr(<<>>)>>),
   Obj(<<>>), Str(<<>>)}

FewChildKinds ==
  {Obj(<<<<"$if", FnK(Str(<<>>))>>>>), Obj(<<<<"$each", Null>>>>), Arr(<<>>), Obj(<<<<"$if", Fn("d")>>>>)}

\* A g or a text, alone or repeated, with an attribute, up to two children of these
\* kinds, and text and raw content that is absent, empty or not empty
EmptyChildDescriptions ==
  {<<<<tag, Obj(each \o <<<<"x", Fn("i")>>>> \o rect \o text \o circle \o raw)>>>> :
     tag \in {"g", "text"},
     each \in Optional("$each", {Arr(<<Num(0), Arr(<<>>)>>)}),
     rect \in Optional("rect", ChildKinds),
     circle \in Optional("circle", FewChildKinds),
     text \in Optional("$text", {Str(<<>>), Str(<<"t">>)}),
     raw \in Optional("$raw", {Str(<<>>), Null, Str(<<"r">>)})}

\* What a $each on the root may hold: arrays, a function that returns one, what is no
\* array, a function that throws
RootSources ==
  {Arr(<<Num(1), Num(2)>>), Arr(<<>>), FnK(Arr(<<Num(1), Num(2)>>)), Num(5), Fn("d"),
   Fn("throw")}

\* A root with or without $each and $if, written before or after an attribute, a child
\* and text content or none
RootDescriptions ==
  {IF first THEN each \o cond \o rest ELSE rest \o cond \o each :
     each \in Optional("$each", RootSources),
     cond \in Optional("$if", Conditions),
     rest \in {<<>>,
               <<<<"width", Fn("i")>>>>,
               <<<<"width", Fn("dataLength")>>, <<"rect", Obj(<<<<"x", Fn("i")>>>>)>>>>,
               <<<<"rect", Obj(<<<<"$each", Arr(<<Num(1), Num(2)>>)>>, <<"x", Fn("d")>>>>)>>,
                 <<"$text", Fn("i")>>>>},
     first \in BOOLEAN}

-----------------------------------------------------------------------------
(* The call *)

\* No call of the scale and tick engine
NoEngine ==
  /\ args = <<>>
  /\ loopV = <<>>
  /\ ticks = <<>>
  /\ ret = <<>>

Ready ==
  /\ pc = "ready"
  /\ result = [out |-> <<>>, thrown |-> ""]
  /\ trace = <<>>
  /\ NoEngine

InitAttr ==
  /\ svgDefinition \in AttrDescriptions
  /\ svgOptions \in OptionsSet
  /\ Ready

CallSvgInPlace ==
  /\ pc = "ready"
  /\ LET r == svg(svgDefinition, svgOptions)
     IN /\ result' = [out |-> r.out, thrown |-> r.thrown]
        /\ trace' = r.tr
  /\ pc' = "done"
  /\ svgDefinition' = RootDef(svgDefinition)
  /\ UNCHANGED <<svgOptions, args, loopV, ticks, ret>>


\* result = svg(svgDefinition, svgOptions)
CallSvg ==
  /\ pc = "ready"
  /\ LET r == svg(svgDefinition, svgOptions)
     IN /\ result' = [out |-> r.out, thrown |-> r.thrown]
        /\ trace' = r.tr
  /\ pc' = "done"
  /\ UNCHANGED <<svgDefinition, svgOptions, args, loopV, ticks, ret>>

InitEach ==
  /\ svgDefinition \in RepeatDescriptions
  /\ svgOptions \in OptionsSet
  /\ Ready

Next == CallSvg

SpecAttr == InitAttr /\ [][Next]_vars

SpecEach == InitEach /\ [][Next]_vars

InitContent ==
  /\ svgDefinition \in AllContentDescriptions
  /\ svgOptions \in OptionsSet
  /\ Ready

SpecContent == InitContent /\ [][Next]_vars

InitMalformed ==
  /\ svgDefinition \in AllMalformedDescriptions
  /\ svgOptions \in OptionsSet
  /\ Ready

SpecMalformed == InitMalformed /\ [][Next]_vars

InitThrow ==
  /\ svgDefinition \in ThrowDescriptions
  /\ svgOptions \in OptionsSet
  /\ Ready

SpecThrow == InitThrow /\ [][Next]_vars

InitFormat ==
  /\ svgDefinition \in FormatDescriptions \cup PlainNestDescriptions
  /\ svgOptions \in OptionsSet
  /\ Ready

SpecFormat == InitFormat /\ [][Next]_vars

InitKeys ==
  /\ svgDefinition \in KeyDescriptions
  /\ svgOptions \in OptionsSet
  /\ Ready

SpecKeys == InitKeys /\ [][Next]_vars

InitKeyed ==
  /\ svgDefinition \in KeyedDescriptions
  /\ svgOptions \in OptionsSet
  /\ Ready

SpecKeyed == InitKeyed /\ [][Next]_vars

InitArray ==
  /\ svgDefinition \in ArrayDescriptions
  /\ svgOptions \in OptionsSet
  /\ Ready

SpecArray == InitArray /\ [][Next]_vars

InitOrder ==
  /\ svgDefinition \in OrderDescriptions
  /\ svgOptions \in OptionsSet
  /\ Ready

SpecOrder == InitOrder /\ [][Next]_vars

InitMixed ==
  /\ svgDefinition \in MixedDescriptions
  /\ svgOptions \in {<<>>, <<<<"pretty", Bool(TRUE)>>>>}
  /\ Ready

SpecMixed == InitMixed /\ [][Next]_vars

InitElementKey ==
  /\ svgDefinition \in ElementKeyDescriptions
  /\ svgOptions \in OptionsSet
  /\ Ready

SpecElementKey == InitElementKey /\ [][Next]_vars

InitEmptyChild ==
  /\ svgDefinition \in EmptyChildDescriptions
  /\ svgOptions \in OptionsSet
  /\ Ready

SpecEmptyChild == InitEmptyChild /\ [][Next]_vars

InitRoot ==
  /\ svgDefinition \in RootDescriptions
  /\ svgOptions \in OptionsSet
  /\ Ready

SpecRoot == InitRoot /\ [][Next]_vars

\* result = svg(svgDefinition, svgOptions) once more, with the same two objects
CallSvgAgain ==
  /\ pc = "done"
  /\ LET r == svg(svgDefinition, svgOptions)
     IN /\ result' = [out |-> r.out, thrown |-> r.thrown]
        /\ trace' = r.tr
  /\ pc' = "again"
  /\ UNCHANGED <<svgDefinition, svgOptions, args, loopV, ticks, ret>>

InitTwice ==
  /\ svgDefinition \in ThrowDescriptions \cup RootDescriptions \cup MalformedItemDescriptions
  /\ svgOptions \in OptionsSet
  /\ Ready

NextTwice == CallSvg \/ CallSvgAgain

SpecTwice == InitTwice /\ [][NextTwice]_vars

-----------------------------------------------------------------------------
(* Vocabulary of the claims, stated apart from the renderer's own operators *)

RECURSIVE AttrEscaped(_), TextEscaped(_), Flatten(_)

IsPrefix(p, s) == Len(p) <= Len(s) /\ SubSeq(s, 1, Len(p)) = p

IsSuffix(p, s) == Len(p) <= Len(s) /\ SubSeq(s, Len(s) - Len(p) + 1, Len(s)) = p

Contains(s, p) == \E k \in 0..(Len(s) - Len(p)) : SubSeq(s, k + 1, k + Len(p)) = p

\* How often p occurs in s
Occurrences(s, p) == Cardinality({k \in 0..(Len(s) - Len(p)) : SubSeq(s, k + 1, k + Len(p)) = p})

\* The concatenation of a sequence of strings
Flatten(strs) == IF strs = <<>> THEN <<>> ELSE Head(strs) \o Flatten(Tail(strs))

AttrEntity(c) ==
  CASE c = "&" -> <<"&", "a", "m", "p", ";">>
    [] c = "\"" -> <<"&", "q", "u", "o", "t", ";">>
    [] c = "<" -> <<"&", "l", "t", ";">>
    [] c = ">" -> <<"&", "g", "t", ";">>
    [] OTHER -> <<c>>

TextEntity(c) ==
  CASE c = "&" -> <<"&", "a", "m", "p", ";">>
    [] c = "<" -> <<"&", "l", "t", ";">>
    [] c = ">" -> <<"&", "g", "t", ";">>
    [] OTHER -> <<c>>

\* s with each of & " < > replaced by its entity, every other character kept
AttrEscaped(s) == IF s = <<>> THEN <<>> ELSE AttrEntity(Head(s)) \o AttrEscaped(Tail(s))

\* s with each of & < > replaced by its entity, every other character kept
TextEscaped(s) == IF s = <<>> THEN <<>> ELSE TextEntity(Head(s)) \o TextEscaped(Tail(s))

\* The value a description slot resolves to under ctx (value functions that raise aside)
Resolved(v, ctx) == IF v.t = "function" THEN Call(v, ctx).ret ELSE v

Raises(v, ctx) == v.t = "function" /\ Call(v, ctx).thrown # ""

OmittedValues == {Null, Undefined, Bool(FALSE)}

FalsyValues == {Bool(FALSE), Num(0), Str(<<>>), Null, Undefined, NaN}

\* The keys renderElement treats as attributes
AttributeKeys == {k \in ModelKeys : k \notin SVG_ELEMENTS /\ KeyChars[k][1] # "$"}

PrettyOn == svgOptions = <<<<"pretty", Bool(TRUE)>>>>

\* key="value" as it should appear in a tag
AttrPair(key, v) ==
  KeyChars[key] \o <<"=", "\"">> \o AttrEscaped(ToStringJS(v)) \o <<"\"">>

\* The returns of renderElement recorded in the history
Elems == {trace[n] : n \in {m \in 1..Len(trace) : trace[m].e = "elem"}}

\* The value-function calls recorded in the history, by position
CallIndexes == {n \in 1..Len(trace) : trace[n].e = "call"}

\* The open tag (or self-closing tag) an element's text starts with
OpenTagText(out) ==
  IF \E k \in 1..Len(out) : out[k] = ">"
  THEN SubSeq(out, 1, CHOOSE k \in 1..Len(out) : out[k] = ">" /\ \A j \in 1..(k - 1) : out[j] # ">")
  ELSE out

NamespaceAttr == <<"x","m","l","n","s","=","\"">> \o XMLNS \o <<"\"">>

-----------------------------------------------------------------------------
(* C1 *)

C1_Applies ==
  /\ ~PrettyOn
  /\ \A n \in 1..Len(svgDefinition) :
       /\ svgDefinition[n][1] \notin SVG_ELEMENTS \cup SPECIAL_KEYS
       /\ ~Raises(svgDefinition[n][2], createEmptyContext)
       /\ Resolved(svgDefinition[n][2], createEmptyContext) \notin OmittedValues

C1_Expected ==
  <<"<", "s", "v", "g", " ">> \o NamespaceAttr
  \o Flatten([n \in 1..Len(svgDefinition) |->
       <<" ">> \o AttrPair(svgDefinition[n][1],
                          Resolved(svgDefinition[n][2], createEmptyContext))])
  \o <<"/", ">">>

\* C1: a root description of attribute keys only, none resolving to null, undefined
\* or false, renders in compact mode to one self-closing svg tag: the namespace
\* attribute first, then one attribute per key in key order.
C1_RootAttributesOnly ==
  (pc = "done" /\ C1_Applies) => (result.thrown = "" /\ result.out = C1_Expected)

\* C1, for the descriptions that do not declare xmlns themselves: it holds there.
C1_RootAttributesWithoutXmlns ==
  (pc = "done" /\ C1_Applies /\ ~HasKey(svgDefinition, "xmlns"))
    => (result.thrown = "" /\ result.out = C1_Expected)

-----------------------------------------------------------------------------
(* C2 *)

\* C2: the root tag always carries the fixed namespace attribute as its first
\* attribute, whatever xmlns the caller declares.
C2_NamespaceFirst ==
  (pc = "done" /\ result.thrown = "" /\ result.out # <<>>)
    => IsPrefix(<<"<", "s", "v", "g", " ">> \o NamespaceAttr, result.out)

-----------------------------------------------------------------------------
(* C3 *)

\* C3: in every emitted tag an attribute key is absent exactly when its value
\* resolves to null, undefined or false; any other value (0, "", NaN included)
\* is emitted as key="escaped value".
C3_AttributeOmission ==
  pc = "done" =>
    \A e \in Elems : e.out # <<>> =>
      \A n \in 1..Len(e.definition) :
        LET key == e.definition[n][1]
            v == Resolved(e.definition[n][2], e.ctx)
            tag == OpenTagText(e.out)
        IN key \in AttributeKeys =>
             /\ Contains(tag, <<" ">> \o KeyChars[key] \o <<"=", "\"">>) <=> v \notin OmittedValues
             /\ v \notin OmittedValues => Contains(tag, <<" ">> \o AttrPair(key, v))

\* An emitted tag showing an attribute resolved to 0, one to "" and one to NaN, and
\* another tag with attributes resolved to false, null or undefined by a function
C3_Witness ==
  /\ pc = "done"
  /\ \E e \in Elems : e.out # <<>> /\
       \E n, m \in 1..Len(e.definition) :
         /\ {e.definition[n][1], e.definition[m][1]} \subseteq AttributeKeys
         /\ Resolved(e.definition[n][2], e.ctx) \in {Num(0), Str(<<>>), NaN}
         /\ e.definition[m][2].t = "function"
         /\ Resolved(e.definition[m][2], e.ctx) \in OmittedValues

-----------------------------------------------------------------------------
(* C8 *)

\* C8: the text between an attribute's quotes is the stringified value with each
\* & " < > replaced once by its entity and nothing else changed; it holds no raw
\* " < or >; escaping it a second time changes it exactly when it holds an entity.
C8_AttributeEscaping ==
  pc = "done" =>
    \A e \in Elems : e.out # <<>> =>
      \A n \in 1..Len(e.definition) :
        LET key == e.definition[n][1]
            v == Resolved(e.definition[n][2], e.ctx)
            x == AttrEscaped(ToStringJS(v))
            between == <<" ">> \o KeyChars[key] \o <<"=", "\"">> \o x \o <<"\"">>
        IN (key \in AttributeKeys /\ v \notin OmittedValues) =>
             /\ Contains(OpenTagText(e.out), between)
             /\ \A k \in 1..Len(x) : x[k] \notin {"\"", "<", ">"}
             /\ escapeAttr(Str(x)) # x <=> (\E k \in 1..Len(x) : x[k] = "&")

\* An attribute value holding an ampersand, a quote and an angle bracket was emitted
C8_Witness ==
  /\ pc = "done"
  /\ \E e \in Elems : e.out # <<>> /\
       \E n \in 1..Len(e.definition) :
         LET v == Resolved(e.definition[n][2], e.ctx)
         IN /\ e.definition[n][1] \in AttributeKeys
            /\ v.t = "string"
            /\ {"&", "\"", "<"} \subseteq {v.s[k] : k \in 1..Len(v.s)}

-----------------------------------------------------------------------------
(* C4 *)

\* The description is a root holding one rect with $each (the shape of EachDescriptions)
C4_Applies ==
  /\ Len(svgDefinition) = 2
  /\ svgDefinition[2][1] = "rect"
  /\ svgDefinition[2][2].t = "object"
  /\ Get(svgDefinition[2][2].e, "$each") # Undefined
  /\ Resolved(Get(svgDefinition[2][2].e, "$each"), createEmptyContext).t = "array"

C4_Node == svgDefinition[2][2].e

\* The array the $each source resolves to
C4_Source == Resolved(Get(C4_Node, "$each"), createEmptyContext).a

\* The context of item k (1-based) of the source, as the claim describes it
C4_ItemCtx(k) ==
  [d |-> C4_Source[k], value |-> C4_Source[k], i |-> k - 1, index |-> k - 1,
   data |-> C4_Source, parent |-> createEmptyContext]

\* $if is absent (undefined counts as absent) or resolves truthy for item k
C4_Survives(k) ==
  \/ Get(C4_Node, "$if") = Undefined
  \/ Resolved(Get(C4_Node, "$if"), C4_ItemCtx(k)) \notin FalsyValues

\* The rect of item k: its index as x and its item as width
C4_Rect(k) ==
  (IF PrettyOn THEN <<" ", " ">> ELSE <<>>)
  \o <<"<", "r", "e", "c", "t", " ">> \o AttrPair("x", Num(k - 1))
  \o <<" ">> \o AttrPair("width", C4_Source[k]) \o <<"/", ">">>
  \o (IF PrettyOn THEN <<"\n">> ELSE <<>>)

C4_Rects ==
  Flatten([k \in 1..Len(C4_Source) |-> IF C4_Survives(k) THEN C4_Rect(k) ELSE <<>>])

C4_Root == <<"<", "s", "v", "g", " ">> \o NamespaceAttr \o <<" ">> \o AttrPair("width", Num(100))

C4_Expected ==
  IF C4_Rects = <<>> THEN C4_Root \o <<"/", ">">>
  ELSE C4_Root \o <<">">> \o (IF PrettyOn THEN <<"\n">> ELSE <<>>) \o C4_Rects
       \o <<"<", "/", "s", "v", "g", ">">>

\* The calls of the node's $if function, in the order they were made
C4_IfCalls == SelectSeq(trace, LAMBDA ev : ev.e = "call" /\ ev.key = "$if")

-----------------------------------------------------------------------------
(* C6 *)

RECURSIVE NodeAt(_, _), C6_Chain(_, _, _)

\* The description reached from the root description by the first m steps of path
NodeAt(path, m) ==
  IF m = 0 THEN Obj(svgDefinition)
  ELSE LET up == NodeAt(path, m - 1)
       IN IF path[m].k = "[]" THEN up.a[path[m].n + 1] ELSE Get(up.e, path[m].k)

\* The node reached by the first m steps of path is a repeated node
IsRepeat(path, m) ==
  /\ m > 0
  /\ NodeAt(path, m).t = "object"
  /\ Get(NodeAt(path, m).e, "$each") # Undefined

\* ctx is an item context of the repeat over the array S
C6_ItemOf(ctx, S) ==
  /\ ctx.i \in 0..(Len(S) - 1)
  /\ ctx.index = ctx.i
  /\ ctx.d = S[ctx.i + 1]
  /\ ctx.value = ctx.d
  /\ ctx.data = S

\* ctx is what the claim gives a function that runs at or below the node reached by the
\* first m steps of path: one item context per repeated node on the way, innermost
\* first, ending in the empty root context, and nothing for the plain nodes
C6_Chain(ctx, path, m) ==
  IF m = 0 THEN ctx = createEmptyContext
  ELSE IF IsRepeat(path, m)
  THEN /\ ctx.parent # Null
       /\ C6_Chain(ctx.parent, path, m - 1)
       /\ LET S == Resolved(Get(NodeAt(path, m).e, "$each"), ctx.parent)
          IN S.t = "array" /\ C6_ItemOf(ctx, S.a)
  ELSE C6_Chain(ctx, path, m - 1)

\* The number of steps to the node whose context the function of call event ev runs in:
\* a $each source runs before its own node's repeat
C6_Depth(ev) == IF ev.key = "$each" THEN Len(ev.path) - 1 ELSE Len(ev.path)

\* The number of steps to the innermost repeated node around call event ev, 0 if none
C6_Innermost(ev) ==
  LET ms == {m \in 1..C6_Depth(ev) : IsRepeat(ev.path, m)}
  IN IF ms = {} THEN 0 ELSE CHOOSE m \in ms : \A k \in ms : k <= m

\* The returns of renderElement after place n of the history for the node m steps down path
C6_ReturnsAfter(n, path, m) ==
  {k \in (n + 1)..Len(trace) : trace[k].e = "elem" /\ trace[k].path = SubSeq(path, 1, m)}

\* The function called at place n runs while the item of context ctx is rendered: the
\* next return of the innermost repeated node is the return of that item
C6_DuringItem(n) ==
  LET ev == trace[n]
      m == C6_Innermost(ev)
      ks == C6_ReturnsAfter(n, ev.path, m)
  IN m > 0 =>
       /\ ks # {}
       /\ trace[CHOOSE k \in ks : \A j \in ks : k <= j].ctx = ev.ctx

\* The items of one repeat (one repeated node under one outer context) are rendered once
\* each, in the order of the source
C6_ItemsInOrder ==
  \A ev \in Elems :
    IsRepeat(ev.path, Len(ev.path)) =>
      LET same == SelectSeq(trace, LAMBDA o : o.e = "elem" /\ o.path = ev.path
                                               /\ o.ctx.parent = ev.ctx.parent)
      IN /\ Len(same) = Len(ev.ctx.data)
         /\ \A k \in 1..Len(same) : same[k].ctx.i = k - 1

\* C6: every value function called while item k of a repeat over S is rendered, on the
\* repeated node or below it through plain nesting or array siblings, gets a context with
\* d = value = S[k], i = index = k, data = S; plain nesting makes no context; outside
\* every repeat the context is the empty root context.
C6_IterationContext ==
  (pc = "done" /\ result.thrown = "") =>
    /\ \A n \in CallIndexes :
         /\ C6_Chain(trace[n].ctx, trace[n].path, C6_Depth(trace[n]))
         /\ C6_DuringItem(n)
    /\ C6_ItemsInOrder

\* A function two plain levels and an array below a repeated node was called for the
\* second item, and a function of the root was called too
C6_Witness ==
  /\ pc = "done"
  /\ result.thrown = ""
  /\ \E n \in CallIndexes :
       /\ Len(trace[n].path) = 4
       /\ C6_Innermost(trace[n]) = 1
       /\ trace[n].ctx.i = 1
       /\ trace[n].ctx.d = Num(2)
  /\ \E n \in CallIndexes : trace[n].path = <<>> /\ trace[n].ctx = createEmptyContext

-----------------------------------------------------------------------------
(* C7 *)

\* The description is a root holding one repeated g that holds a repeated rect (the
\* shape of NestedDescriptions)
C7_Applies ==
  /\ Len(svgDefinition) = 1
  /\ svgDefinition[1][1] = "g"
  /\ svgDefinition[1][2].t = "object"
  /\ Get(svgDefinition[1][2].e, "$each").t = "array"
  /\ Get(svgDefinition[1][2].e, "rect").t = "object"
  /\ Get(Get(svgDefinition[1][2].e, "rect").e, "$each") # Undefined

C7_Outer == Get(svgDefinition[1][2].e, "$each").a

C7_InnerSource == Get(Get(svgDefinition[1][2].e, "rect").e, "$each")

C7_OuterPath == <<Step("g", 0)>>

C7_InnerPath == <<Step("g", 0), Step("rect", 0)>>

\* The context of the outer item at index j
C7_OuterCtx(j) ==
  [d |-> C7_Outer[j + 1], value |-> C7_Outer[j + 1], i |-> j, index |-> j,
   data |-> C7_Outer, parent |-> createEmptyContext]

\* The index of the outer item being rendered when place n of the history was written:
\* the outer node calls the function of its id once per item, before it renders its rect
C7_OuterIndexAt(n) ==
  Cardinality({k \in 1..n : trace[k].e = "call" /\ trace[k].path = C7_OuterPath
                             /\ trace[k].key = "id"}) - 1

\* The inner sequence of outer item j: what the inner source resolves to under j's context
C7_Inner(j) == Resolved(C7_InnerSource, C7_OuterCtx(j))

\* The returns of the inner node under the outer item j, in order
C7_InnerReturns(j) ==
  SelectSeq(trace, LAMBDA ev : ev.e = "elem" /\ ev.path = C7_InnerPath
                                /\ ev.ctx.parent = C7_OuterCtx(j))

\* C7: in a two-level repeat, for every outer item at index j and every inner item, the
\* inner node's functions get a context with parent.i = parent.index = j and parent.d the
\* outer item, and the inner $each source function is evaluated under the outer item's
\* context (so it can return the outer item as the inner sequence).
C7_NestedParentContext ==
  (pc = "done" /\ C7_Applies) =>
    /\ result.thrown = ""
    /\ \A n \in CallIndexes :
         LET ev == trace[n]
             j == C7_OuterIndexAt(n)
         IN ev.path = C7_InnerPath =>
              /\ j \in 0..(Len(C7_Outer) - 1)
              /\ IF ev.key = "$each"
                 THEN /\ ev.ctx = C7_OuterCtx(j)
                      /\ ev.fn = Fn("d") => ev.ret = C7_Outer[j + 1]
                 ELSE /\ ev.ctx.parent # Null
                      /\ ev.ctx.parent.i = j
                      /\ ev.ctx.parent.index = j
                      /\ ev.ctx.parent.d = C7_Outer[j + 1]
                      /\ ev.ctx.parent = C7_OuterCtx(j)
                      /\ ev.fn = Fn("parentI") => ev.ret = Num(j)
                      /\ ev.fn = Fn("parentD") => ev.ret = C7_Outer[j + 1]
    /\ \A j \in 0..(Len(C7_Outer) - 1) :
         /\ C7_InnerSource.t = "function" =>
              \E n \in CallIndexes : /\ trace[n].path = C7_InnerPath
                                     /\ trace[n].key = "$each"
                                     /\ trace[n].ctx = C7_OuterCtx(j)
         /\ Len(C7_InnerReturns(j)) = (IF C7_Inner(j).t = "array" THEN Len(C7_Inner(j).a) ELSE 0)
         /\ \A k \in 1..Len(C7_InnerReturns(j)) :
              /\ C7_InnerReturns(j)[k].ctx.i = k - 1
              /\ C7_InnerReturns(j)[k].ctx.d = C7_Inner(j).a[k]

\* The inner source returned the second outer item, an array of two, as the inner
\* sequence, and a function of the inner node ran for its second item
C7_Witness ==
  /\ pc = "done"
  /\ C7_Applies
  /\ C7_InnerSource = Fn("d")
  /\ Len(C7_Outer) >= 2
  /\ C7_Outer[2] = Arr(<<Num(1), Num(2)>>)
  /\ \E n \in CallIndexes :
       /\ trace[n].path = C7_InnerPath
       /\ trace[n].fn = Fn("parentI")
       /\ trace[n].ret = Num(1)
       /\ trace[n].ctx.i = 1
       /\ trace[n].ctx.d = Num(2)

-----------------------------------------------------------------------------
(* C9 *)

\* The node of the return e has no $if, or one that is not falsy under e's context
Passes(e) ==
  \/ Get(e.definition, "$if") = Undefined
  \/ Resolved(Get(e.definition, "$if"), e.ctx) \notin FalsyValues

\* The attributes a tag should carry for the entries of definition under ctx
ExpectedAttributes(definition, ctx) ==
  Flatten([n \in 1..Len(definition) |->
             IF /\ definition[n][1] \in AttributeKeys
                /\ Resolved(definition[n][2], ctx) \notin OmittedValues
             THEN <<" ">> \o AttrPair(definition[n][1], Resolved(definition[n][2], ctx))
             ELSE <<>>])

\* The indentation and the line end around the element of the return e
PadOf(e) == IF Truthy(e.options.pretty) THEN Repeat(<<" ", " ">>, e.options.indent) ELSE <<>>

NlOf(e) == IF Truthy(e.options.pretty) THEN <<"\n">> ELSE <<>>

\* The $text of the node of e, resolved and stringified
TextOf(e) == ToStringJS(Resolved(Get(e.definition, "$text"), e.ctx))

\* The node of e is a text whose $text stringifies to a non-empty string
HasTextLeaf(e) ==
  /\ e.tagName = "text"
  /\ HasKey(e.definition, "$text")
  /\ TextOf(e) # <<>>

\* C9: a text node whose resolved $text stringifies to a non-empty string is emitted as
\* exactly <text + attributes + > + the text with & < > replaced by entities (double
\* quotes unchanged) + </text>, nothing between open tag, text and close tag, in
\* compact and in pretty mode alike.
C9_TextLeaf ==
  pc = "done" =>
    \A e \in Elems :
      (HasTextLeaf(e) /\ Passes(e)) =>
        e.out = PadOf(e) \o <<"<", "t", "e", "x", "t">>
                \o ExpectedAttributes(e.definition, e.ctx) \o <<">">>
                \o TextEscaped(TextOf(e)) \o <<"<", "/", "t", "e", "x", "t", ">">> \o NlOf(e)

\* In pretty mode, a text with an attribute, a $raw and a child was emitted with a $text
\* that holds a double quote and an ampersand
C9_Witness ==
  /\ pc = "done"
  /\ PrettyOn
  /\ \E e \in Elems :
       /\ HasTextLeaf(e)
       /\ Passes(e)
       /\ TextOf(e) = <<"\"", "&">>
       /\ HasKey(e.definition, "x")
       /\ HasKey(e.definition, "tspan")
       /\ Truthy(Resolved(Get(e.definition, "$raw"), e.ctx))
       /\ Contains(result.out, <<">", "\"", "&", "a", "m", "p", ";", "<", "/", "t", "e", "x", "t", ">">>)

-----------------------------------------------------------------------------
(* C10 *)

\* The $raw of the node of e, resolved
RawOf(e) == Resolved(Get(e.definition, "$raw"), e.ctx)

\* What the node of e renders to when its $raw entry is taken away
WithoutRaw(e) ==
  renderElement(e.tagName, Without(e.definition, "$raw"), e.ctx, e.options, e.path, <<>>).out

\* The close tag of the element of e, as it ends the element's text
ClosingOf(e) == PadOf(e) \o CloseTag(e.tagName) \o NlOf(e)

\* The line the raw string raw takes inside the element of e
RawLine(e, raw) ==
  (IF Truthy(e.options.pretty) THEN Repeat(<<" ", " ">>, e.options.indent + 1) ELSE <<>>)
  \o raw \o NlOf(e)

\* without, the text of an element, opened up to hold the raw string raw as the last of
\* its content
WithRaw(e, without, raw) ==
  IF IsSuffix(ClosingOf(e), without)
  THEN SubSeq(without, 1, Len(without) - Len(ClosingOf(e))) \o RawLine(e, raw) \o ClosingOf(e)
  ELSE SubSeq(without, 1, Len(without) - 2 - Len(NlOf(e))) \o <<">">> \o NlOf(e)
       \o RawLine(e, raw) \o ClosingOf(e)

\* C10: for every rendered node, other than a text with non-empty $text, whose $raw
\* resolves to a non-empty string, that string stands in the output unaltered between
\* the node's open tag and close tag; a $raw that resolves falsy contributes nothing.
C10_RawVerbatim ==
  pc = "done" =>
    \A e \in Elems :
      (HasKey(e.definition, "$raw") /\ Passes(e) /\ ~HasTextLeaf(e)) =>
        /\ (RawOf(e).t = "string" /\ RawOf(e).s # <<>>) =>
             /\ IsPrefix(PadOf(e) \o <<"<">> \o KeyChars[e.tagName], e.out)
             /\ IsSuffix(RawOf(e).s \o NlOf(e) \o ClosingOf(e), e.out)
             /\ e.out = WithRaw(e, WithoutRaw(e), RawOf(e).s)
             /\ Contains(result.out, RawOf(e).s \o NlOf(e) \o ClosingOf(e))
        /\ RawOf(e) \in FalsyValues => e.out = WithoutRaw(e)

\* A raw string of markup characters was emitted inside a g for one item of a repeat, and
\* the g of the next item, whose $raw is falsy, was emitted too
C10_Witness ==
  /\ pc = "done"
  /\ \E e \in Elems :
       /\ HasKey(e.definition, "$raw") /\ Passes(e) /\ ~HasTextLeaf(e)
       /\ RawOf(e) = Str(<<"<", "b", ">">>)
       /\ Contains(e.out, <<"<", "b", ">", "<", "/", "g", ">">>)
  /\ \E e \in Elems :
       /\ HasKey(e.definition, "$raw") /\ Passes(e) /\ ~HasTextLeaf(e)
       /\ RawOf(e) \in FalsyValues
       /\ e.out # <<>>

-----------------------------------------------------------------------------
(* C5 *)

RECURSIVE InChain(_, _)

\* c is ctx or one of the contexts ctx descends from
InChain(c, ctx) == ctx = c \/ (ctx.parent # Null /\ InChain(c, ctx.parent))

\* The value functions called for the rendering that returned e: those of its node and
\* of the nodes below it, under e's context or a context made below it
C5_CallsOf(e) ==
  {k \in CallIndexes : IsPrefix(e.path, trace[k].path) /\ InChain(e.ctx, trace[k].ctx)}

\* The returns of renderElement for the nodes below the node of e, within e's rendering
C5_ReturnsBelow(e) ==
  {o \in Elems : Len(o.path) > Len(e.path) /\ IsPrefix(e.path, o.path) /\ InChain(e.ctx, o.ctx)}

\* The rendering that returned e gave the empty string, rendered nothing below its node
\* and called no value function but the node's $if
C5_Silent(e) ==
  /\ e.out = <<>>
  /\ C5_ReturnsBelow(e) = {}
  /\ \A k \in C5_CallsOf(e) : trace[k].path = e.path /\ trace[k].key = "$if"
  /\ Cardinality(C5_CallsOf(e)) = (IF Get(e.definition, "$if").t = "function" THEN 1 ELSE 0)

\* The root holds nothing but one node, and every rendering of that node returned e with
\* a condition that holds of e: the output is then the bare root tag
C5_BareRoot(Cond(_)) ==
  (/\ Len(svgDefinition) = 1
   /\ svgDefinition[1][2].t = "object"
   /\ \A e \in Elems : Len(e.path) = 1 => Cond(e)) =>
    result.out = <<"<", "s", "v", "g", " ">> \o NamespaceAttr \o <<"/", ">">>

\* The node of e declares a $if key whose resolved value is falsy
C5_DeclaredFalsy(e) ==
  /\ HasKey(e.definition, "$if")
  /\ Resolved(Get(e.definition, "$if"), e.ctx) \in FalsyValues

\* The node of e declares a $if that is not the static value undefined and whose
\* resolved value is falsy
C5_GivenFalsy(e) ==
  /\ Get(e.definition, "$if") # Undefined
  /\ Resolved(Get(e.definition, "$if"), e.ctx) \in FalsyValues

-----------------------------------------------------------------------------
(* C11 *)

\* The returns of renderElement recorded in the history, by position
ElemIndexes == {n \in 1..Len(trace) : trace[n].e = "elem"}

\* The diagnostics recorded in the history, by position
WarnIndexes == {n \in 1..Len(trace) : trace[n].e = "warn"}

\* The child keys of the node of e whose $each resolves, under e's context, to no array
C11_MalformedKeys(e) ==
  {e.definition[n][1] : n \in
     {m \in 1..Len(e.definition) :
        /\ isElement(e.definition[m][1])
        /\ e.definition[m][2].t = "object"
        /\ Get(e.definition[m][2].e, "$each") # Undefined
        /\ Resolved(Get(e.definition[m][2].e, "$each"), e.ctx).t # "array"}}

\* What the node of e renders to when its entry key is taken away
C11_Without(e, key) ==
  renderElement(e.tagName, Without(e.definition, key), e.ctx, e.options, e.path, <<>>).out

\* The value functions called at or below the child key of the node of e, within e's
\* rendering
C11_CallsBelow(e, key) ==
  {k \in CallIndexes : /\ IsPrefix(Append(e.path, Step(key, 0)), trace[k].path)
                       /\ InChain(e.ctx, trace[k].ctx)}

\* The evaluations of a node with a malformed $each: a rendered parent and a child key
C11_Evaluations ==
  {<<n, key>> \in ElemIndexes \X ModelKeys :
     Passes(trace[n]) /\ key \in C11_MalformedKeys(trace[n])}

\* C11: a node whose $each resolves to a value that is no array does not make svg()
\* raise; it contributes the empty string, one diagnostic is emitted per evaluation of
\* the node, none of its other values is evaluated, and the keys beside it and the nodes
\* after it are rendered as if the node were absent.
C11_MalformedEach ==
  pc = "done" =>
    /\ result.thrown = ""
    /\ \A n \in ElemIndexes :
         LET e == trace[n]
         IN Passes(e) =>
              \A key \in C11_MalformedKeys(e) :
                /\ e.out = C11_Without(e, key)
                /\ \A k \in C11_CallsBelow(e, key) :
                     /\ trace[k].path = Append(e.path, Step(key, 0))
                     /\ trace[k].key = "$each"
                     /\ trace[k].ctx = e.ctx
                /\ ~\E o \in Elems : /\ IsPrefix(Append(e.path, Step(key, 0)), o.path)
                                     /\ InChain(e.ctx, o.ctx)
    /\ Cardinality(WarnIndexes) = Cardinality(C11_Evaluations)
    /\ \A w \in WarnIndexes : trace[w].got.t # "array"
    /\ (svgDefinition \in MalformedDescriptions) =>
         /\ Cardinality(WarnIndexes) = 1
         /\ result.out = svg(Without(svgDefinition, "rect"), svgOptions).out

\* A g was rendered for three items, the rect under it got a malformed source for the
\* first and the last and the array [1, 2] for the second: two diagnostics, two rects
C11_Witness ==
  /\ pc = "done"
  /\ result.thrown = ""
  /\ Cardinality(WarnIndexes) = 2
  /\ Cardinality(C11_Evaluations) = 2
  /\ Occurrences(result.out, <<"<", "r", "e", "c", "t">>) = 2
  /\ Occurrences(result.out, <<"<", "c", "i", "r", "c", "l", "e">>) = 3

-----------------------------------------------------------------------------
(* C12 *)

RECURSIVE Defused(_), DefusedAll(_, _)

\* The description v with every value function that can throw replaced by one that
\* returns 1
Defused(v) ==
  CASE v.t = "function" -> IF v.f \in {"throw", "parentD"} THEN FnK(Num(1)) ELSE v
    [] v.t = "array" -> Arr([n \in 1..Len(v.a) |-> Defused(v.a[n])])
    [] v.t = "object" -> Obj(DefusedAll(v.e, Len(v.e)))
    [] OTHER -> v

\* The first n entries of the object entries e, their values defused
DefusedAll(e, n) ==
  IF n = 0 THEN <<>>
  ELSE Append(DefusedAll(e, n - 1), <<e[n][1], Defused(e[n][2])>>)

\* The calls recorded in the history tr, in order
CallsOf(tr) == SelectSeq(tr, LAMBDA ev : ev.e = "call")

\* The calls that raised
C12_Raising == {n \in CallIndexes : trace[n].thrown # ""}

\* Where and under what context the n-th call of the history tr was made
C12_Place(tr, n) ==
  [path |-> CallsOf(tr)[n].path, key |-> CallsOf(tr)[n].key, i |-> CallsOf(tr)[n].ctx.i,
   parent |-> CallsOf(tr)[n].ctx.parent # Null]

\* The history of rendering the same description with the throwing functions made
\* harmless
C12_Harmless == svg(DefusedAll(svgDefinition, Len(svgDefinition)), svgOptions).tr

\* C12: if a value function that the renderer calls raises, svg() raises that same
\* error and returns no string, nothing is caught or retried, and no value function that
\* comes later in the traversal is called; a function that is never reached cannot fail
\* the call.
C12_ErrorsPropagate ==
  pc = "done" =>
    /\ (result.thrown # "") <=> (C12_Raising # {})
    /\ \A n \in C12_Raising :
         /\ n = Len(trace)
         /\ result.thrown = trace[n].thrown
         /\ result.out = <<>>
    /\ Cardinality(C12_Raising) <= 1
    /\ /\ Len(CallsOf(trace)) <= Len(CallsOf(C12_Harmless))
       /\ \A n \in 1..Len(CallsOf(trace)) :
            C12_Place(trace, n) = C12_Place(C12_Harmless, n)
       /\ result.thrown = "" => Len(CallsOf(trace)) = Len(CallsOf(C12_Harmless))

\* The function of an attribute of the repeated rect raised on the second item, the
\* first being filtered out, after nine calls that returned; a second function that
\* throws, further on in the traversal, was not reached
C12_Witness ==
  /\ pc = "done"
  /\ result.thrown = "Error"
  /\ result.out = <<>>
  /\ Len(CallsOf(trace)) = 10
  /\ trace[Len(trace)].key = "fill"
  /\ trace[Len(trace)].ctx.i = 1
  /\ svgDefinition[3][2].a[2] = Fn("throw")

\* A function that throws stands under a g whose $if is false: the call returns a string
C12_WitnessUnreached ==
  /\ pc = "done"
  /\ result.thrown = ""
  /\ Get(svgDefinition[2][2].e, "rect").e[3][2] = Fn("throw")
  /\ Get(svgDefinition[2][2].e, "$if") = FnK(Bool(FALSE))
  /\ result.out # <<>>

-----------------------------------------------------------------------------
(* C13 *)

RECURSIVE LinesFrom(_, _, _), CountLeading(_), NestingAfter(_, _)

\* The lines of s from place start on, nls being the places of the newlines of s
LinesFrom(s, start, nls) ==
  LET ahead == {k \in nls : k >= start}
  IN IF ahead = {} THEN <<SubSeq(s, start, Len(s))>>
     ELSE LET q == CHOOSE k \in ahead : \A j \in ahead : k <= j
          IN <<SubSeq(s, start, q - 1)>> \o LinesFrom(s, q + 1, nls)

\* The lines of s: the text between its newlines
SplitLines(s) == LinesFrom(s, 1, {k \in 1..Len(s) : s[k] = "\n"})

\* The number of spaces the line begins with
CountLeading(line) ==
  IF line # <<>> /\ Head(line) = " " THEN 1 + CountLeading(Tail(line)) ELSE 0

\* The line without the spaces it begins with
LineText(line) == SubSeq(line, CountLeading(line) + 1, Len(line))

IsTagLine(line) == LineText(line) # <<>> /\ Head(LineText(line)) = "<"

IsCloseLine(line) == IsPrefix(<<"<", "/">>, LineText(line))

\* An open tag alone on its line: not a close tag, not self-closing, not closed on the line
IsOpenLine(line) ==
  /\ IsTagLine(line)
  /\ ~IsCloseLine(line)
  /\ ~IsSuffix(<<"/", ">">>, line)
  /\ ~Contains(line, <<"<", "/">>)

\* The number of elements left open by the first n of the lines, counted on the text
NestingAfter(lines, n) ==
  IF n = 0 THEN 0
  ELSE NestingAfter(lines, n - 1)
       + (IF IsOpenLine(lines[n]) THEN 1 ELSE IF IsCloseLine(lines[n]) THEN -1 ELSE 0)

\* The number of elements open around line n: a close tag stands at the depth of its
\* open tag
NestingAt(lines, n) ==
  IF IsCloseLine(lines[n]) THEN NestingAfter(lines, n) ELSE NestingAfter(lines, n - 1)

\* Every space of s stands inside a tag: more < than > come before it
SpacesInTags(s) ==
  \A k \in 1..Len(s) :
    s[k] = " " => Cardinality({j \in 1..k : s[j] = "<"}) > Cardinality({j \in 1..k : s[j] = ">"})

\* The number of structural ancestors of the node at path: array places do not count
StructuralDepth(path) == Cardinality({n \in 1..Len(path) : path[n].k # "[]"})

\* The open tags of depth nested elements, one a line, each indented by its depth
Opened(depth) ==
  Flatten([k \in 1..depth |-> Repeat(<<" ", " ">>, k - 1) \o <<"<", "a", ">", "\n">>])

\* Every tag line of the lines begins with two spaces per element open around it, and
\* no line is empty
C13_Indented(lines) ==
  \A n \in 1..Len(lines) :
    /\ LineText(lines[n]) # <<>>
    /\ IsTagLine(lines[n]) => CountLeading(lines[n]) = 2 * NestingAt(lines, n)

\* C13: without pretty the renderer inserts no white space or newline between tags, text
\* and raw content; with pretty every open, self-closing and close tag line begins with
\* exactly 2*k spaces, k the number of structural ancestors of the element, and ends
\* with a newline, the depth growing by one per structural level and not for $each or
\* array siblings; the final result has no leading or trailing white space.
C13_PrettyLayout ==
  (pc = "done" /\ result.thrown = "") =>
    /\ result.out # <<>>
    /\ Head(result.out) \notin WhiteSpace
    /\ result.out[Len(result.out)] \notin WhiteSpace
    /\ \A e \in Elems : e.options.indent = StructuralDepth(e.path)
    /\ ~PrettyOn =>
         /\ \A k \in 1..Len(result.out) : result.out[k] \notin {"\n", "\t", "\r"}
         /\ SpacesInTags(result.out)
    /\ PrettyOn =>
         /\ C13_Indented(SplitLines(result.out))
         /\ \A e \in Elems :
              e.out # <<>> =>
                /\ IsPrefix(Repeat(<<" ", " ">>, StructuralDepth(e.path)) \o <<"<">>, e.out)
                /\ IsSuffix(<<">", "\n">>, e.out)
                /\ C13_Indented(SplitLines(Opened(StructuralDepth(e.path))
                                           \o SubSeq(e.out, 1, Len(e.out) - 1)))

\* In pretty mode a rect three levels down, the second item of a repeat inside an array
\* inside a repeated g, stands on a line of its own behind six spaces
C13_Witness ==
  /\ pc = "done"
  /\ PrettyOn
  /\ \E e \in Elems :
       /\ e.tagName = "rect"
       /\ StructuralDepth(e.path) = 3
       /\ Len(e.path) = 4
       /\ e.ctx.i = 1
       /\ e.ctx.parent.i = 1
  /\ Contains(result.out, <<"\n", " ", " ", " ", " ", " ", " ", "<", "r", "e", "c", "t", " ", "x", "=", "\"", "2", "\"", ">", "\n">>)
  /\ \E n \in 1..Len(SplitLines(result.out)) :
       /\ IsCloseLine(SplitLines(result.out)[n])
       /\ CountLeading(SplitLines(result.out)[n]) = 4

-----------------------------------------------------------------------------
(* C14 *)

\* The five directive names
C14_DirectiveKeys == {"$each", "$if", "$text", "$raw", "$key"}

\* The keys the claim calls attributes: neither an element name nor a directive
C14_ClaimedAttributeKeys == {k \in ModelKeys : k \notin SVG_ELEMENTS /\ k \notin C14_DirectiveKeys}

\* The calls of the function of the entry key of the node of e, within e's rendering
C14_CallsFor(e, key) ==
  {k \in CallIndexes : trace[k].path = e.path /\ trace[k].key = key /\ trace[k].ctx = e.ctx}

\* The element of e carries key as an attribute name
C14_HasAttribute(e, key) ==
  Contains(OpenTagText(e.out), <<" ">> \o KeyChars[key] \o <<"=", "\"">>)

\* The entry n of the node of e is handled as an attribute: emitted unless its value is
\* null, undefined or false, its function called once
C14_AsAttribute(e, n) ==
  LET key == e.definition[n][1]
      v == Resolved(e.definition[n][2], e.ctx)
  IN /\ C14_HasAttribute(e, key) <=> v \notin OmittedValues
     /\ v \notin OmittedValues => Contains(OpenTagText(e.out), <<" ">> \o AttrPair(key, v))
     /\ e.definition[n][2].t = "function" => Cardinality(C14_CallsFor(e, key)) = 1

\* The entry n of the node of e is handled as a child element: a tag of that name
\* stands inside the element, and the key is no attribute
C14_AsElement(e, n) ==
  LET key == e.definition[n][1]
  IN /\ ~C14_HasAttribute(e, key)
     /\ Contains(SubSeq(e.out, Len(OpenTagText(e.out)) + 1, Len(e.out)), <<"<">> \o KeyChars[key])

\* The entry n of the node of e is handled as a directive: the key is no attribute and
\* names no tag
C14_AsDirective(e, n) ==
  LET key == e.definition[n][1]
  IN /\ ~C14_HasAttribute(e, key)
     /\ ~Contains(e.out, <<"<">> \o KeyChars[key])

\* The entry n of the node of e is dropped: nothing of it in the text, its function
\* never called
C14_Dropped(e, n) ==
  LET key == e.definition[n][1]
  IN /\ ~Contains(e.out, KeyChars[key])
     /\ C14_CallsFor(e, key) = {}

\* The number of attributes in the open tag of e
C14_AttributeCount(e) == Occurrences(OpenTagText(e.out), <<"=", "\"">>)

\* The entries of the node of e with a key in keys and a value that is not omitted
C14_Emitted(e, keys) ==
  {n \in 1..Len(e.definition) :
     /\ e.definition[n][1] \in keys
     /\ Resolved(e.definition[n][2], e.ctx) \notin OmittedValues}

-----------------------------------------------------------------------------
(* C15 *)

RECURSIVE C15_WithoutKey(_)
\* The description with every $key entry taken out, on every node
C15_WithoutKey(entries) ==
  LET Kept == SelectSeq(entries, LAMBDA en : en[1] # "$key")
      Inner(v) ==
        CASE v.t = "object" -> Obj(C15_WithoutKey(v.e))
          [] v.t = "array" ->
               Arr([n \in 1..Len(v.a) |->
                      IF v.a[n].t = "object" THEN Obj(C15_WithoutKey(v.a[n].e)) ELSE v.a[n]])
          [] OTHER -> v
  IN [n \in 1..Len(Kept) |-> <<Kept[n][1], Inner(Kept[n][2])>>]

\* The nodes of the description that carry a $key
C15_Keyed == {e \in Elems : \E n \in 1..Len(e.definition) : e.definition[n][1] = "$key"}

\* C15: a $key entry has no rendering effect: svg() returns, byte for byte, what it
\* returns for the same description without any $key, whatever the $key holds (so
\* adding, removing or changing one changes nothing); $key never appears in the text,
\* and a $key function is never invoked: the value functions called are those called
\* without the $key, in the same order.
C15_KeyHasNoEffect ==
  pc = "done" =>
    LET bare == svg(C15_WithoutKey(svgDefinition), svgOptions)
    IN /\ result.out = bare.out
       /\ result.thrown = bare.thrown
       /\ ~Contains(result.out, KeyChars["$key"])
       /\ \A n \in CallIndexes : trace[n].key # "$key"
       /\ CallsOf(trace) = CallsOf(bare.tr)

\* The root, the repeated g and the first rect each carried a $key, one of them a
\* function that throws when called, and the drawing was returned
C15_Witness ==
  /\ pc = "done"
  /\ result.thrown = ""
  /\ svgDefinition[1] = <<"$key", Fn("throw")>>
  /\ Cardinality(C15_Keyed) = 5
  /\ \E e \in C15_Keyed : e.tagName = "rect" /\ e.ctx.i = 1 /\ e.out # <<>>
  /\ C15_WithoutKey(svgDefinition) # svgDefinition

-----------------------------------------------------------------------------
(* C16 *)

\* What the single node def under the key tagName of the node of e renders to: the
\* tag name, e's context, one level deeper than e
C16_Single(e, tagName, def) ==
  renderNode(tagName, def, e.ctx, [e.options EXCEPT !.indent = @ + 1], <<>>, <<>>).out

\* The texts of the elements of the array a under tagName, one after the other
C16_Joined(e, tagName, a) == Flatten([n \in 1..Len(a) |-> C16_Single(e, tagName, a[n])])

\* The text the children of the node of e should make: entry after entry, an array by
\* its elements, anything else as the single node it is
C16_Body(e) ==
  Flatten([n \in 1..Len(e.definition) |->
             LET key == e.definition[n][1]
                 v == e.definition[n][2]
             IN IF key \notin SVG_ELEMENTS THEN <<>>
                ELSE IF v.t = "array" THEN C16_Joined(e, key, v.a)
                ELSE C16_Single(e, key, v)])

\* The elements of the array a are plain descriptions: objects without $each and $if
C16_Plain(a) ==
  \A n \in 1..Len(a) :
    /\ a[n].t = "object"
    /\ ~HasKey(a[n].e, "$each")
    /\ ~HasKey(a[n].e, "$if")

\* The returns of nodes that hold an array under a structural key
C16_Parents ==
  {e \in Elems :
     /\ e.out # <<>>
     /\ \E n \in 1..Len(e.definition) :
          e.definition[n][1] \in SVG_ELEMENTS /\ e.definition[n][2].t = "array"}

\* C16: an array under a structural key renders as its elements, each rendered as a
\* single node of that tag name would be (same context, same depth), joined in array
\* order with nothing in between and in the place of the key among the children; an
\* empty array adds nothing (alone, it leaves the parent self-closing); an array of k
\* plain descriptions makes exactly k tags.
C16_ArrayOfSiblings ==
  pc = "done" =>
    \A e \in C16_Parents :
      /\ IF C16_Body(e) = <<>>
         THEN e.out = SubSeq(OpenTagText(e.out), 1, Len(OpenTagText(e.out)) - 1)
                        \o <<">">> \o NlOf(e)
              /\ e.out[Len(OpenTagText(e.out)) - 1] = "/"
         ELSE e.out = OpenTagText(e.out) \o NlOf(e) \o C16_Body(e) \o ClosingOf(e)
      /\ \A n \in 1..Len(e.definition) :
           LET key == e.definition[n][1]
               v == e.definition[n][2]
           IN (key \in SVG_ELEMENTS /\ v.t = "array") =>
                /\ Contains(e.out, C16_Joined(e, key, v.a))
                /\ C16_Plain(v.a) =>
                     Occurrences(C16_Joined(e, key, v.a), <<"<">> \o KeyChars[key]) = Len(v.a)
                /\ v.a = <<>> => C16_Joined(e, key, v.a) = <<>>

\* Under the second item of a repeated g the array held a plain rect, a rect whose
\* condition held, and a rect repeated over two items: four rects in that order
C16_Witness ==
  /\ pc = "done"
  /\ svgOptions = <<>>
  /\ \E e \in C16_Parents :
       /\ e.tagName = "g"
       /\ e.ctx.i = 1
       /\ Len(Get(e.definition, "rect").a) = 3
       /\ e.out = <<"<","g"," ","x","=","\"","1","\"",">">>
                  \o <<"<","r","e","c","t"," ","x","=","\"","1","\"","/",">">>
                  \o <<"<","r","e","c","t"," ","f","i","l","l","=","\"","6","\"","/",">">>
                  \o <<"<","r","e","c","t"," ","x","=","\"","0","\""," ","f","i","l","l","=","\"","a","\"","/",">">>
                  \o <<"<","r","e","c","t"," ","x","=","\"","1","\""," ","f","i","l","l","=","\"","b","\"","/",">">>
                  \o <<"<","c","i","r","c","l","e"," ","i","d","=","\"","6","\"","/",">">>
                  \o <<"<","/","g",">">>

\* An empty array was the only child of the root, which came out self-closing
C16_WitnessEmpty ==
  /\ pc = "done"
  /\ \E e \in C16_Parents :
       /\ e.tagName = "svg"
       /\ Get(e.definition, "rect") = Arr(<<>>)

-----------------------------------------------------------------------------
(* C17 *)

\* a is a whole multiple of step
IsMultiple(a, step) ==
  /\ a.k = "fin"
  /\ step.k = "fin"
  /\ step.m # 0
  /\ DivF(a, step).x >= 0

\* C17: for all finite min < max, niceScale(min, max) returns r with r.min <= min,
\* r.max >= max, r.step > 0, and r.min and r.max whole multiples of r.step.
C17_NiceScaleContains ==
  pc = "done" =>
    /\ LeF(ret.min, args.min)
    /\ LeF(args.max, ret.max)
    /\ LtF(Zero, ret.step)
    /\ IsMultiple(ret.min, ret.step)
    /\ IsMultiple(ret.max, ret.step)

\* niceScale(-1e308, 1e308) returned NaN for both ends and an infinite step
C17_Overflowed ==
  /\ pc = "done"
  /\ args = [min |-> Fin(-1, 308), max |-> Fin(1, 308)]
  /\ ret = [min |-> NotANumber, max |-> NotANumber, step |-> Inf(1)]

\* niceScale(-0.03, 0.04) returned -0.04, 0.04 and the step 0.02
C17_Ordinary ==
  /\ pc = "done"
  /\ args = [min |-> Fin(-3, -2), max |-> Fin(4, -2)]
  /\ ret = [min |-> Fin(-4, -2), max |-> Fin(4, -2), step |-> Fin(2, -2)]

-----------------------------------------------------------------------------
(* C18 *)

\* (max - min) / step, a whole number by the choice of the arguments
C18_Steps ==
  LET q == DivF(SubF(args.max, args.min), args.step)
  IN q.m * 10^q.x

\* C18: for step > 0 and max - min a whole multiple of step, generateTicks(min, max,
\* step) ends and returns exactly (max - min) / step + 1 ticks, the first min, the last
\* max, each the one before plus step: while it runs it never holds more ticks than
\* that.
C18_TicksExact ==
  /\ pc = "loop" => Len(ticks) <= C18_Steps + 1
  /\ pc = "done" =>
       /\ Len(ret) = C18_Steps + 1
       /\ ret[1] = args.min
       /\ ret[Len(ret)] = args.max
       /\ \A n \in 1..(Len(ret) - 1) :
            ret[n + 1] = AddF(ret[n], args.step) /\ LtF(ret[n], ret[n + 1])

\* generateTicks(0, 2e-11, 1e-11) returned [0, 0, 0]
C18_Collapsed ==
  /\ pc = "done"
  /\ args = [min |-> Zero, max |-> Fin(2, -11), step |-> Fin(1, -11)]
  /\ ret = <<Zero, Zero, Zero>>

\* generateTicks(1e18, 1e18, 1) holds three ticks and v is still 1e18
C18_NoProgress ==
  /\ pc = "loop"
  /\ args = [min |-> Fin(1, 18), max |-> Fin(1, 18), step |-> Fin(1, 0)]
  /\ Len(ticks) = 3
  /\ loopV = Fin(1, 18)

\* generateTicks(-0.04, 0.04, 0.02), the arguments niceScale(-0.03, 0.04) gives,
\* returned -0.04, -0.02, 0, 0.02, 0.04
C18_Ordinary ==
  /\ pc = "done"
  /\ args = [min |-> Fin(-4, -2), max |-> Fin(4, -2), step |-> Fin(2, -2)]
  /\ ret = <<Fin(-4, -2), Fin(-2, -2), Zero, Fin(2, -2), Fin(4, -2)>>

-----------------------------------------------------------------------------
(* C19 *)

\* domain[0] = domain[1]
C19_Degenerate == args.domain[1] = args.domain[2]

-----------------------------------------------------------------------------
(* C20 *)

\* The number of elements named tag in the text plot returned
C20_Count(tag) == Occurrences(result.out, <<"<">> \o KeyChars[tag] \o <<" ">>)

\* The returns of renderElement for elements named tag, in the order they were made
C20_Made(tag) == SelectSeq(trace, LAMBDA ev : ev.e = "elem" /\ ev.tagName = tag)

\* One circle per data point, in the order of the data
C20_CirclePerPoint ==
  /\ C20_Count("circle") = Len(args.data)
  /\ Len(C20_Made("circle")) = Len(args.data)
  /\ \A n \in 1..Len(args.data) :
       /\ C20_Made("circle")[n].ctx.d = args.data[n]
       /\ C20_Made("circle")[n].ctx.i = n - 1
       /\ C20_Made("circle")[n].out # <<>>

\* Nothing of the x-axis group was rendered: no group with a transform, an axis line and
\* ticks; no tick mark (a line down to y2 = 5); no tick label (a text at y = 18); no
\* axis label (a text at y = 38)
C20_NoXAxis ==
  \A e \in Elems :
    /\ ~(HasKey(e.definition, "transform") /\ HasKey(e.definition, "g")
           /\ HasKey(e.definition, "line"))
    /\ e.tagName = "line" => Get(e.definition, "y2") # Num(5)
    /\ e.tagName = "text" => Get(e.definition, "y") \notin {Num(18), Num(38)}

\* C20: for every dataset, plot() of type scatter or line emits exactly data.length
\* circles, one per data point in data order; type bar emits at least data.length
\* rects; type area emits at least two paths; with xAxis: false nothing of the x-axis
\* group is in the output.
C20_PlotElements ==
  pc # "ready" =>
    /\ pc = "done"
    /\ args.type \in {"scatter", "line"} => C20_CirclePerPoint
    /\ args.type = "bar" => C20_Count("rect") >= Len(args.data)
    /\ args.type = "area" => C20_Count("path") >= 2
    /\ args.xAxis = Bool(FALSE) => C20_NoXAxis

\* plot() of type area with an empty dataset raised a TypeError
C20_AreaOfNothing ==
  /\ pc = "done"
  /\ args.type = "area"
  /\ args.data = <<>>
  /\ result.thrown = "TypeError"
  /\ result.out = <<>>

\* plot() of type area with two points, xAxis: false, emitted two paths and two circles
C20_AreaOfTwo ==
  /\ pc = "done"
  /\ args.type = "area"
  /\ Len(args.data) = 2
  /\ args.xAxis = Bool(FALSE)
  /\ result.thrown = ""
  /\ C20_Count("path") = 2
  /\ C20_Count("circle") = 2
  /\ C20_NoXAxis
  /\ Contains(result.out, <<"d","=","\"","M"," ","0"," ">>)

-----------------------------------------------------------------------------
(* C21 *)

\* The x values and the y values of the data handed to plot
C21_Values(key) == [n \in 1..Len(args.data) |-> fromJS(Get(args.data[n].e, key))]

\* xNice and yNice as plot computes them from the data
C21_Nice(key) ==
  LET e == extent(C21_Values(key))
  IN niceScale(IF key = "y" /\ args.type = "bar" THEN MinF(Zero, e[1]) ELSE e[1],
               e[2], Fin(5, 0))

\* xTicks and yTicks as plot computes them
C21_Ticks(key) ==
  generateTicks(C21_Nice(key).min, C21_Nice(key).max, C21_Nice(key).step).ticks

\* The tick labels rendered for an axis: the texts at y = 18 under the x-axis, the texts
\* at x = -8 beside the y-axis
C21_TickLabels(key) ==
  {e \in Elems : /\ e.tagName = "text"
                 /\ e.out # <<>>
                 /\ IF key = "x" THEN Get(e.definition, "y") = Num(18)
                                 ELSE Get(e.definition, "x") = Num(-8)}

\* v is no NaN and no infinity, as a number or written out
C21_IsFinite(v) ==
  /\ v # NaN
  /\ v.t = "string" =>
       /\ ~Contains(v.s, S_NaN)
       /\ ~Contains(v.s, <<"I", "n", "f", "i", "n", "i", "t", "y">>)

\* C21: for any finite, non-empty numeric dataset (a single point and equal x or y
\* values included) and any chart type, plot() completes without raising; the nice
\* bounds, the step, every tick and every scaled coordinate placed in the description
\* are finite numbers, and each axis that is not disabled has at least one tick.
C21_ValidDescription ==
  (pc # "ready" /\ args.data # <<>>) =>
    /\ pc = "done"
    /\ result.thrown = ""
    /\ \A key \in {"x", "y"} :
         /\ C21_Nice(key).min.k = "fin"
         /\ C21_Nice(key).max.k = "fin"
         /\ C21_Nice(key).step.k = "fin"
         /\ \A n \in 1..Len(C21_Ticks(key)) : C21_Ticks(key)[n].k = "fin"
    /\ \A n \in CallIndexes : C21_IsFinite(trace[n].ret)
    /\ C21_IsFinite(Str(result.out))
    /\ args.xAxis # Bool(FALSE) => C21_TickLabels("x") # {}
    /\ args.yAxis # Bool(FALSE) => C21_TickLabels("y") # {}

\* plot() of type scatter with the single point (0, 1) returned a circle at cx="NaN"
\* cy="NaN", with no tick on either axis
C21_SinglePoint ==
  /\ pc = "done"
  /\ args.type = "scatter"
  /\ Len(args.data) = 1
  /\ result.thrown = ""
  /\ C21_Nice("x") = [min |-> NotANumber, max |-> NotANumber, step |-> Zero]
  /\ C21_Ticks("x") = <<>>
  /\ C21_TickLabels("x") = {}
  /\ C21_TickLabels("y") = {}
  /\ Contains(result.out, <<"c","x","=","\"","N","a","N","\""," ","c","y","=","\"","N","a","N","\"">>)

\* plot() of type scatter with the points (0, 1) and (2, 2) returned finite coordinates
\* and five and six tick labels
C21_TwoDistinctPoints ==
  /\ pc = "done"
  /\ args.type = "scatter"
  /\ Len(args.data) = 2
  /\ args.data[1] # args.data[2]
  /\ args.xAxis = Obj(<<>>)
  /\ result.thrown = ""
  /\ C21_IsFinite(Str(result.out))
  /\ Cardinality(C21_TickLabels("x")) = 5
  /\ Cardinality(C21_TickLabels("y")) = 6

-----------------------------------------------------------------------------
(* C22 *)

RECURSIVE C22_Up(_, _)

\* The context reached from ctx by following parent hops times
C22_Up(ctx, hops) == IF hops = 0 THEN ctx ELSE C22_Up(ctx.parent, hops - 1)

\* The context of the item being rendered, of the node m steps down its path, when the
\* function of call event ev was called
C22_CtxAt(ev, m) ==
  C22_Up(ev.ctx, Cardinality({k \in (m + 1)..C6_Depth(ev) : IsRepeat(ev.path, k)}))

\* The place of key among the entries of a description
C22_KeyIndex(entries, key) == CHOOSE n \in 1..Len(entries) : entries[n][1] = key

\* Where step m of the path of call event ev stands in the claimed order: after the
\* values of its parent (3), by the place of its key in the parent (or its place in the
\* array), then by the item of its repeat; the source of a repeat comes before its items
C22_StepRank(ev, m) ==
  <<3,
    IF ev.path[m].k = "[]" THEN ev.path[m].n + 1
    ELSE C22_KeyIndex(NodeAt(ev.path, m - 1).e, ev.path[m].k),
    IF ~IsRepeat(ev.path, m) THEN 0
    ELSE IF m = Len(ev.path) /\ ev.key = "$each" THEN -1
    ELSE C22_CtxAt(ev, m).i>>

\* Where the value itself stands among what its node evaluates: the condition first (1),
\* then the other values by the place of their key (2)
C22_OwnRank(ev) ==
  IF ev.key = "$each" \/ ev.key = "" THEN <<>>
  ELSE IF ev.key = "$if" THEN <<<<1, 0, 0>>>>
  ELSE <<<<2, C22_KeyIndex(NodeAt(ev.path, Len(ev.path)).e, ev.key), 0>>>>

\* The place of call event ev in the claimed order
C22_Rank(ev) == [m \in 1..Len(ev.path) |-> C22_StepRank(ev, m)] \o C22_OwnRank(ev)

\* a stands before b: triples compared part by part
C22_TripleLess(a, b) ==
  \/ a[1] < b[1]
  \/ a[1] = b[1] /\ a[2] < b[2]
  \/ a[1] = b[1] /\ a[2] = b[2] /\ a[3] < b[3]

\* r stands before s in the depth-first, left-to-right order
C22_Before(r, s) ==
  \E k \in 1..Len(r) :
    /\ k <= Len(s)
    /\ \A j \in 1..(k - 1) : r[j] = s[j]
    /\ C22_TripleLess(r[k], s[k])

\* The source function of every repeat around the call at place n was called before it,
\* under the context that encloses the repeat
C22_SourcesFirst(n) ==
  LET ev == trace[n]
  IN \A m \in 1..C6_Depth(ev) :
       (IsRepeat(ev.path, m) /\ Get(NodeAt(ev.path, m).e, "$each").t = "function") =>
         \E k \in 1..(n - 1) :
           /\ trace[k].e = "call"
           /\ trace[k].key = "$each"
           /\ trace[k].path = SubSeq(ev.path, 1, m)
           /\ trace[k].ctx = C22_CtxAt(ev, m).parent

\* Place k of the history was written while the children of the node returning at place
\* n were rendered
C22_Below(k, n) ==
  /\ k < n
  /\ \A j \in k..(n - 1) :
       /\ Len(trace[j].path) > Len(trace[n].path)
       /\ IsPrefix(trace[n].path, trace[j].path)

\* Place k is a child of the node returning at place n: a node returning one key (and
\* places in arrays) further down, or a computed primitive there
C22_IsChild(k, n) ==
  /\ C22_Below(k, n)
  /\ \/ trace[k].e = "elem"
     \/ trace[k].e = "call" /\ trace[k].key = ""
  /\ \A j \in (Len(trace[n].path) + 2)..Len(trace[k].path) : trace[k].path[j].k = "[]"

\* The text the child at place k made: what the node returned, or the tag around the
\* value the function returned, one level deeper than its parent e
C22_Piece(k, e) ==
  IF trace[k].e = "elem" THEN trace[k].out
  ELSE Indent(e.options.pretty, e.options.indent + 1)
       \o OpenTag(trace[k].path[Len(e.path) + 1].k, <<>>)
       \o TextEscaped(ToStringJS(trace[k].ret))
       \o CloseTag(trace[k].path[Len(e.path) + 1].k)
       \o Newline(e.options.pretty)

\* The texts of the children of the node returning at place n, in the order they were made
C22_ChildrenText(n) ==
  Flatten([k \in 1..(n - 1) |-> IF C22_IsChild(k, n) THEN C22_Piece(k, trace[n]) ELSE <<>>])

\* Every child of the node of e leaves a place in the history: none is a constant
\* primitive
C22_Traced(e) ==
  \A n \in 1..Len(e.definition) :
    LET v == e.definition[n][2]
    IN e.definition[n][1] \in SVG_ELEMENTS =>
         \/ v.t \in {"object", "function"}
         \/ v.t = "array" /\ \A j \in 1..Len(v.a) : v.a[j].t \in {"object", "function"}

\* C22: value functions are called in one order: the $each source of a node once, under
\* the enclosing context; then item after item, for each item its $if, then its
\* attribute, $text and $raw values in key order, then its children in key order, each
\* child's subtree before the next sibling; and the text lists the elements in that order.
C22_EvaluationOrder ==
  pc = "done" =>
    /\ \A m, n \in CallIndexes : m < n => C22_Before(C22_Rank(trace[m]), C22_Rank(trace[n]))
    /\ \A n \in CallIndexes : C22_SourcesFirst(n)
    /\ \A n \in ElemIndexes :
         (trace[n].out # <<>> /\ ~HasTextLeaf(trace[n]) /\ C22_Traced(trace[n])) =>
           IsPrefix(OpenTagText(trace[n].out) \o NlOf(trace[n]) \o C22_ChildrenText(n),
                    trace[n].out)

\* A repeated g whose children are written before its condition and its attribute: for
\* the second item the condition was called first, the attribute next, then the source
\* of the rect and the functions of its three items, then those of the circles
C22_Witness ==
  /\ pc = "done"
  /\ result.thrown = ""
  /\ Len(svgDefinition[2][2].e) >= 6
  /\ svgDefinition[2][2].e[1][1] = "rect"
  /\ svgDefinition[2][2].e[2][1] = "circle"
  /\ \E a, b, c, d, f \in CallIndexes :
       /\ a < b /\ b < c /\ c < d /\ d < f
       /\ trace[a].key = "$if" /\ trace[a].path = <<Step("g", 0)>> /\ trace[a].ctx.i = 1
       /\ trace[b].key = "x" /\ trace[b].path = <<Step("g", 0)>> /\ trace[b].ctx.i = 1
       /\ trace[c].key = "$each" /\ trace[c].path = <<Step("g", 0), Step("rect", 0)>>
       /\ trace[c].ctx.i = 1
       /\ trace[d].key = "x" /\ Len(trace[d].path) = 3 /\ trace[d].ctx.i = 1
       /\ trace[d].ctx.parent.i = 1
       /\ trace[f].key = "" /\ trace[f].path[2] = Step("circle", 0) /\ trace[f].ctx.i = 1
  /\ \E n \in ElemIndexes :
       /\ trace[n].tagName = "g"
       /\ Occurrences(C22_ChildrenText(n), <<"<", "r", "e", "c", "t">>) = 3
       /\ Occurrences(C22_ChildrenText(n), <<"<", "c", "i", "r", "c", "l", "e">>) = 2

-----------------------------------------------------------------------------
(* C23 *)

RECURSIVE C23_Hops(_), C23_Last(_)

\* The number of parent links from ctx to the context that has none
C23_Hops(ctx) == IF ctx.parent = Null THEN 0 ELSE 1 + C23_Hops(ctx.parent)

\* The context the parent links of ctx end in
C23_Last(ctx) == IF ctx.parent = Null THEN ctx ELSE C23_Last(ctx.parent)

\* The number of repeated nodes among the first m steps of path
C23_Levels(path, m) == Cardinality({k \in 1..m : IsRepeat(path, k)})

\* The returns, after place n of the history, of the nodes that enclose the node of path
C23_Enclosing(n, path) ==
  {k \in (n + 1)..Len(trace) :
     /\ trace[k].e = "elem"
     /\ Len(trace[k].path) < Len(path)
     /\ IsPrefix(trace[k].path, path)}

\* The return at place n adds one context to the context of the node around it if its
\* node is repeated, and none otherwise
C23_OneContextPerItem(n) ==
  LET e == trace[n]
      ks == C23_Enclosing(n, e.path)
      around == trace[CHOOSE k \in ks : \A j \in ks : k <= j].ctx
  IN ks # {} =>
       IF IsRepeat(e.path, Len(e.path))
       THEN e.ctx.parent = around /\ C23_Hops(e.ctx) = C23_Hops(around) + 1
       ELSE e.ctx = around

\* The context a function of a node was called with is the one the node returns with
C23_Unwritten(n) ==
  LET ev == trace[n]
      ks == {k \in ElemIndexes : k > n /\ trace[k].path = ev.path}
  IN (ev.key \notin {"$each", ""} /\ ks # {}) =>
       trace[CHOOSE k \in ks : \A j \in ks : k <= j].ctx = ev.ctx

\* C23: the parent links of a context form a chain that ends: a function called under k
\* enclosing repeats gets a context from which k parent links lead to the empty root
\* context, whose parent is null; every item of a repeat adds one context whose parent is
\* the context the repeat was entered with; a context is not changed once it is made.
C23_ParentChain ==
  pc = "done" =>
    /\ \A n \in CallIndexes :
         LET ev == trace[n]
         IN /\ C23_Hops(ev.ctx) = C23_Levels(ev.path, C6_Depth(ev))
            /\ C23_Last(ev.ctx) = createEmptyContext
            /\ C23_Last(ev.ctx) = [d |-> Null, value |-> Null, i |-> 0, index |-> 0,
                                   data |-> <<>>, parent |-> Null]
            /\ C23_Unwritten(n)
    /\ \A n \in ElemIndexes :
         /\ C23_Hops(trace[n].ctx) = C23_Levels(trace[n].path, Len(trace[n].path))
         /\ C23_OneContextPerItem(n)

\* A function of the inner node of a two-level repeat was called for the second inner
\* item of the second outer item: two parent links lead to the empty root context
C23_Witness ==
  /\ pc = "done"
  /\ result.thrown = ""
  /\ \E n \in CallIndexes :
       /\ trace[n].path = <<Step("g", 0), Step("rect", 0)>>
       /\ trace[n].key = "x"
       /\ C23_Hops(trace[n].ctx) = 2
       /\ trace[n].ctx.i = 1
       /\ trace[n].ctx.parent.i = 1
       /\ trace[n].ctx.parent.parent = createEmptyContext

-----------------------------------------------------------------------------
(* C24 *)

\* The line the text content of the node of e takes inside its element, if it has any
C24_TextPart(e) ==
  IF HasKey(e.definition, "$text") /\ TextOf(e) # <<>>
  THEN (IF Truthy(e.options.pretty) THEN Repeat(<<" ", " ">>, e.options.indent + 1) ELSE <<>>)
       \o TextEscaped(TextOf(e)) \o NlOf(e)
  ELSE <<>>

\* The line the raw content of the node of e takes inside its element, if it has any
C24_RawPart(e) ==
  IF HasKey(e.definition, "$raw") /\ Truthy(RawOf(e))
  THEN RawLine(e, ToStringJS(RawOf(e)))
  ELSE <<>>

\* What stands between the open and the close tag of the element of e: the children in
\* key order, then the text content, then the raw content
C24_Inner(e) == C16_Body(e) \o C24_TextPart(e) \o C24_RawPart(e)

\* C24: in every emitted element with content, other than a text with non-empty $text,
\* the content is all rendered children in key order, then the escaped text content,
\* then the raw content, whatever the order of the child keys, $text and $raw; the
\* attributes stand in the open tag in key order, also between child keys.
C24_ContentOrder ==
  pc = "done" =>
    \A e \in Elems :
      (e.out # <<>> /\ ~HasTextLeaf(e) /\ C24_Inner(e) # <<>>) =>
        e.out = PadOf(e) \o <<"<">> \o KeyChars[e.tagName]
                \o ExpectedAttributes(e.definition, e.ctx) \o <<">">> \o NlOf(e)
                \o C24_Inner(e) \o ClosingOf(e)

\* A g written as raw content, an attribute, a child, text content, an attribute and a
\* child came out with both attributes in its open tag, then both children, the text
\* and the raw content
C24_Witness ==
  /\ pc = "done"
  /\ svgOptions = <<>>
  /\ \E e \in Elems :
       /\ e.tagName = "g"
       /\ [n \in 1..Len(e.definition) |-> e.definition[n][1]]
            = <<"$raw", "fill", "circle", "$text", "x", "rect">>
       /\ e.ctx.i = 1
       /\ e.out = <<"<","g"," ","f","i","l","l","=","\"","a","\""," ","x","=","\"","1","\"",">">>
                  \o <<"<","c","i","r","c","l","e","/",">">>
                  \o <<"<","r","e","c","t"," ","w","i","d","t","h","=","\"","2","\"","/",">">>
                  \o <<"t","&","l","t",";">> \o <<"<","r","/",">">> \o <<"<","/","g",">">>

-----------------------------------------------------------------------------
(* C25 *)

\* The places of the description of e that hold an allowlisted key with a value that is
\* no description and no array
C25_Places(e) ==
  {n \in 1..Len(e.definition) :
     /\ e.definition[n][1] \in SVG_ELEMENTS
     /\ e.definition[n][2].t \notin {"object", "array"}}

\* The element the claim gives the entry at place n of the node of e: the tag around the
\* escaped string of the resolved value, one level below e
C25_Child(e, n) ==
  (IF Truthy(e.options.pretty) THEN Repeat(<<" ", " ">>, e.options.indent + 1) ELSE <<>>)
  \o <<"<">> \o KeyChars[e.definition[n][1]] \o <<">">>
  \o TextEscaped(ToStringJS(Resolved(e.definition[n][2], e.ctx)))
  \o <<"<", "/">> \o KeyChars[e.definition[n][1]] \o <<">">> \o NlOf(e)

\* The entry at place n is the only structural entry of the node of e, which has no $text
\* and no $raw
C25_OnlyContent(e, n) ==
  \A k \in 1..Len(e.definition) :
    k # n => e.definition[k][1] \notin SVG_ELEMENTS \cup {"$text", "$raw"}

C25_WitnessComputed ==
  /\ pc = "done"
  /\ \E e \in Elems :
       /\ e.ctx.i = 1
       /\ \E n \in C25_Places(e) : e.definition[n] = <<"mask", Undefined>>
       /\ Contains(e.out, <<"<","m","a","s","k",">","u","n","d","e","f","i","n","e","d","<","/","m","a","s","k",">">>)

-----------------------------------------------------------------------------
(* C26 *)

\* The structural keys of a description
C26_ChildKeys(definition) ==
  {definition[n][1] : n \in {k \in 1..Len(definition) : definition[k][1] \in SVG_ELEMENTS}}

\* The entries of a description without its structural keys and without $raw
C26_Bare(definition) ==
  SelectSeq(definition, LAMBDA en : en[1] \notin SVG_ELEMENTS /\ en[1] # "$raw")

\* What the node of e renders to when its children and its $raw are taken away
C26_WithoutContent(e) ==
  renderElement(e.tagName, C26_Bare(e.definition), e.ctx, e.options, e.path, <<>>).out

\* The calls made for the node returning at place n, after its condition: those of its
\* own values and those below it, up to its return
C26_Calls(n) ==
  {k \in CallIndexes :
     /\ k < n
     /\ IsPrefix(trace[n].path, trace[k].path)
     /\ trace[k].ctx = trace[n].ctx
     /\ \A j \in k..(n - 1) : trace[j].e = "elem" => trace[j].path # trace[n].path}

\* The $raw function and the functions of the children of the node returning at place n
\* were called for it
C26_StillInvoked(n) ==
  LET e == trace[n]
  IN /\ Get(e.definition, "$raw").t = "function" =>
          \E k \in C26_Calls(n) : trace[k].path = e.path /\ trace[k].key = "$raw"
     /\ \A key \in C26_ChildKeys(e.definition) :
          (/\ Get(e.definition, key).t = "object"
           /\ \E a \in 1..Len(Get(e.definition, key).e) :
                /\ Get(e.definition, key).e[a][1] \in AttributeKeys
                /\ Get(e.definition, key).e[a][2].t = "function") =>
            \E k \in C26_Calls(n) : trace[k].path = Append(e.path, Step(key, 0))

\* C26: a text node whose resolved $text is non-empty shows none of its children and
\* nothing of its $raw in the output, although the functions of the children and of $raw
\* are called; with an empty or absent $text its children and raw content are emitted.
C26_TextLeafHidesContent ==
  pc = "done" =>
    \A n \in ElemIndexes :
      LET e == trace[n]
      IN (e.tagName = "text" /\ Passes(e)) =>
           /\ C26_StillInvoked(n)
           /\ IF HasTextLeaf(e)
              THEN /\ e.out = C26_WithoutContent(e)
                   /\ \A key \in C26_ChildKeys(e.definition) :
                        ~Contains(e.out, <<"<">> \o KeyChars[key])
              ELSE /\ Contains(e.out, C16_Body(e) \o C24_RawPart(e))
                   /\ (C16_Body(e) \o C24_RawPart(e) # <<>>) =>
                        IsSuffix(C16_Body(e) \o C24_RawPart(e) \o ClosingOf(e), e.out)

\* A text with $text "a<", a $raw function and a tspan whose x is computed came out as
\* the text alone, and both functions were called
C26_Witness ==
  /\ pc = "done"
  /\ \E n \in ElemIndexes :
       /\ trace[n].tagName = "text"
       /\ HasTextLeaf(trace[n])
       /\ Get(trace[n].definition, "$raw").t = "function"
       /\ Truthy(RawOf(trace[n]))
       /\ "tspan" \in C26_ChildKeys(trace[n].definition)
       /\ \E k \in C26_Calls(n) : trace[k].key = "$raw"
       /\ \E k \in C26_Calls(n) : trace[k].key = "x" /\ Len(trace[k].path) = 2
       /\ ~Contains(result.out, <<"<", "t", "s", "p", "a", "n">>)

\* A text with an empty $text came out with its tspan and its raw content
C26_WitnessEmptyText ==
  /\ pc = "done"
  /\ \E e \in Elems :
       /\ e.tagName = "text"
       /\ HasKey(e.definition, "$text")
       /\ TextOf(e) = <<>>
       /\ Truthy(RawOf(e))
       /\ "tspan" \in C26_ChildKeys(e.definition)
       /\ Contains(e.out, <<"<", "t", "s", "p", "a", "n">>)
       /\ Contains(e.out, ToStringJS(RawOf(e)))

-----------------------------------------------------------------------------
(* C27 *)

\* The entries of a description without its structural keys
C27_Childless(definition) == SelectSeq(definition, LAMBDA en : en[1] \notin SVG_ELEMENTS)

\* What the node of e renders to when its child keys are taken away
C27_WithoutChildren(e) ==
  renderElement(e.tagName, C27_Childless(e.definition), e.ctx, e.options, e.path, <<>>).out

\* The node of e has text content, raw content
C27_HasText(e) == HasKey(e.definition, "$text") /\ TextOf(e) # <<>>

C27_HasRaw(e) == HasKey(e.definition, "$raw") /\ ToStringJS(RawOf(e)) # <<>> /\ Truthy(RawOf(e))

\* The self-closing tag of the node of e
C27_SelfClosing(e) ==
  PadOf(e) \o <<"<">> \o KeyChars[e.tagName] \o ExpectedAttributes(e.definition, e.ctx)
  \o <<"/", ">">> \o NlOf(e)

\* The element of e has an open tag and a close tag
C27_Paired(e) ==
  /\ IsPrefix(PadOf(e) \o <<"<">> \o KeyChars[e.tagName]
              \o ExpectedAttributes(e.definition, e.ctx) \o <<">">>, e.out)
  /\ IsSuffix(CloseTag(e.tagName) \o NlOf(e), e.out)

\* C27: a node whose structural children all render to the empty string and whose text
\* and raw content are empty is emitted as a self-closing tag, the same bytes as the node
\* without those child keys; a node has an open and a close tag exactly when its rendered
\* children, its text content or its raw content is not empty.
C27_SelfClosingByContent ==
  pc = "done" =>
    \A e \in Elems :
      e.out # <<>> =>
        LET empty == C16_Body(e) = <<>> /\ ~C27_HasText(e) /\ ~C27_HasRaw(e)
        IN /\ empty => e.out = C27_SelfClosing(e) /\ e.out = C27_WithoutChildren(e)
           /\ C27_Paired(e) <=> ~empty
           /\ ~empty => e.out # C27_SelfClosing(e)

\* A g with a rect repeated over what is no array and a circle whose condition is
\* falsy, an empty $text and a null $raw came out self-closing
C27_Witness ==
  /\ pc = "done"
  /\ \E e \in Elems :
       /\ e.tagName = "g"
       /\ Get(e.definition, "rect") = Obj(<<<<"$each", Num(5)>>>>)
       /\ Get(e.definition, "circle") = Obj(<<<<"$if", FnK(Str(<<>>))>>>>)
       /\ Get(e.definition, "$text") = Str(<<>>)
       /\ HasKey(e.definition, "$raw")
       /\ e.out = C27_SelfClosing(e)
       /\ WarnIndexes # {}

\* The same g whose circle's condition held for the item came out with a close tag
C27_WitnessPaired ==
  /\ pc = "done"
  /\ \E e \in Elems :
       /\ e.tagName = "g"
       /\ Get(e.definition, "rect") = Arr(<<>>)
       /\ Get(e.definition, "circle") = Obj(<<<<"$if", Fn("d")>>>>)
       /\ ~C27_HasText(e) /\ ~C27_HasRaw(e)
       /\ e.ctx.i = 1
       /\ C27_Paired(e)

-----------------------------------------------------------------------------
(* C28 *)

\* The returns of the root node
C28_RootReturns == {n \in ElemIndexes : trace[n].path = <<>>}

\* The root has a $if (one given as undefined is none) that resolves to a falsy value
C28_RootIfFalsy ==
  /\ Get(svgDefinition, "$if") # Undefined
  /\ Resolved(Get(svgDefinition, "$if"), createEmptyContext) \in FalsyValues

\* The text is one svg element: it starts with <svg and either is one self-closing tag
\* or ends with the one </svg> it holds
C28_OneRootElement(out) ==
  /\ IsPrefix(<<"<", "s", "v", "g">>, out)
  /\ Occurrences(out, <<"<", "s", "v", "g">>) = 1
  /\ \/ /\ out = OpenTagText(out)
        /\ IsSuffix(<<"/", ">">>, out)
        /\ Occurrences(out, <<"<">>) = 1
     \/ /\ IsSuffix(<<"<", "/", "s", "v", "g", ">">>, out)
        /\ Occurrences(out, <<"<", "/", "s", "v", "g", ">">>) = 1

C28_WitnessEmpty ==
  /\ pc = "done"
  /\ HasKey(svgDefinition, "$each")
  /\ Get(svgDefinition, "$if") = FnK(Num(0))
  /\ result.thrown = ""
  /\ result.out = <<>>

-----------------------------------------------------------------------------
(* C29 *)

\* What the renderer worked on were copies: the root it rendered is the description
\* with xmlns merged in, an item of a repeat is rendered from the node without $each,
\* and the description still holds the root as the caller wrote it and every $each
C29_Copies ==
  \A e \in Elems :
    IF e.path = <<>>
    THEN /\ e.definition = RootDef(svgDefinition)
         /\ Get(svgDefinition, "xmlns") = Undefined => e.definition # svgDefinition
    ELSE /\ NodeAt(e.path, Len(e.path)).t = "object"
         /\ IsRepeat(e.path, Len(e.path)) =>
              /\ e.definition = Without(NodeAt(e.path, Len(e.path)).e, "$each")
              /\ HasKey(NodeAt(e.path, Len(e.path)).e, "$each")
              /\ e.ctx.data = Resolved(Get(NodeAt(e.path, Len(e.path)).e, "$each"),
                                       e.ctx.parent).a
         /\ ~IsRepeat(e.path, Len(e.path)) => e.definition = NodeAt(e.path, Len(e.path)).e

C29_WitnessRaised ==
  /\ pc = "again"
  /\ result.thrown # ""
  /\ \E e \in Elems : IsRepeat(e.path, Len(e.path))

-----------------------------------------------------------------------------
(* C30 *)

\* s without what pretty printing adds to values that hold no line end and do not begin
\* with a space: the spaces at the start of every line and the line ends
C30_Strip(s) ==
  Flatten([n \in 1..Len(SplitLines(s)) |-> LineText(SplitLines(s)[n])])

\* The same call in compact mode
C30_Compact == svg(svgDefinition, <<<<"pretty", Bool(FALSE)>>>>)

\* The calls of a history, in order
C30_Calls(tr) == SelectSeq(tr, LAMBDA ev : ev.e = "call")

\* The return p of the pretty call and the return c of the compact call are of the same
\* node, and p made the text of c with pads and line ends added
C30_SameElement(p, c) ==
  /\ p.path = c.path
  /\ p.tagName = c.tagName
  /\ p.definition = c.definition
  /\ p.ctx = c.ctx
  /\ p.options.indent = c.options.indent
  /\ C30_Strip(p.out) = c.out
  /\ OpenTagText(C30_Strip(p.out)) = OpenTagText(c.out)

\* C30: pretty mode changes the layout only: the tags, attributes, text and raw segments
\* are those of compact mode in the same order, the pretty output without the pads and
\* line ends the renderer added is the compact output, and the same value functions are
\* called in the same order.
C30_PrettyIsLayoutOnly ==
  (pc = "done" /\ PrettyOn) =>
    \E c \in {C30_Compact} :
      /\ result.thrown = c.thrown
      /\ C30_Strip(result.out) = c.out
      /\ C30_Calls(trace) = C30_Calls(c.tr)
      /\ Len(trace) = Len(c.tr)
      /\ \A n \in 1..Len(trace) :
           /\ trace[n].e = c.tr[n].e
           /\ trace[n].e = "elem" => C30_SameElement(trace[n], c.tr[n])

\* In pretty mode a description with three levels, text content, raw content and a
\* repeat came out on more than ten lines, four of them indented by three levels
C30_Witness ==
  /\ pc = "done"
  /\ PrettyOn
  /\ HasKey(svgDefinition, "$text")
  /\ HasKey(svgDefinition, "$raw")
  /\ Occurrences(result.out, <<"\n">>) > 10
  /\ Occurrences(result.out, <<"\n", " ", " ", " ", " ", " ", " ", "<">>) >= 4
  /\ Len(C30_Calls(trace)) >= 4
  /\ result.out # C30_Compact.out

====
